---- MODULE Spec2Model ----
(***************************************************************************)
(* The chunk store of pkg/chunk (src/pkg/querier/block_store.go, from line *)
(* 409 on): the write path Put / PutOne, the read path Get and the label   *)
(* discovery calls, and DeleteChunk with partial deletion.                 *)
(*                                                                         *)
(* Time is counted in ticks of model.Time.  Strings that the code joins    *)
(* with ':' are kept as sequences of ':'-free segments, so joining is      *)
(* concatenation of sequences.                                             *)
(*                                                                         *)
(* Spec runs Put and DeleteChunk step by step with storage faults; SpecGet *)
(* runs the read calls on stores written without faults; SpecDedup runs    *)
(* the loop of calculateIndexEntries on lists of schema entries.           *)
(* SpecAgain deletes a chunk a second time; SpecFan runs the goroutines of *)
(* lookupChunksByMetricName and their coordinator under cancellation;      *)
(* SpecRange runs validateQueryTimeRange on its own; SpecConc runs Put and  *)
(* DeleteChunk in two goroutines that interleave at every storage call.    *)
(*                                                                         *)
(* The UserStore of package querier (the same file, up to line 408):       *)
(* SpecStores runs the four RPCs and getOrCreateStore as concurrent        *)
(* callers of the store map; SpecSync runs the service from starting to    *)
(* stopping with the worker pool of syncUserStores.                        *)
(*                                                                         *)
(* The table scanner (src/unnamed/part_000): SpecScan runs main, the page  *)
(* handlers of the segments and the totals.                                *)
(***************************************************************************)
EXTENDS Integers, Sequences, FiniteSets, TLC

(***************************************************************************)
(* Bounds of the model.                                                    *)
(***************************************************************************)
\* Timestamps range over 0..MaxTime.
MaxTime == 5
\* Number of store calls (Put, DeleteChunk) started in one behaviour.
MaxCalls == 2
\* TenantSyncConcurrency ranges over 0..MaxWorkers.
MaxWorkers == 2
\* Number of calls of syncUserStores in one behaviour.
MaxSyncs == 3
\* Number of queries fanned out in one behaviour.
MaxQueries == 2
\* Number of indexable matchers of a query that is fanned out.
MaxMatchers == 3
\* Pages and rows that one scan of the table delivers.
MaxPages == 2
MaxRows == 3

(***************************************************************************)
(* Program constants.                                                      *)
(***************************************************************************)
\* now.Add(5 * time.Minute): the tolerated distance of through into the
\* future, in ticks.
FiveMinutes == 2

\* Width of one index table period of the schema, in ticks.
BucketSize == 3

Nil == "nil"
Time == 0..MaxTime

Min(a, b) == IF a < b THEN a ELSE b
Max(a, b) == IF a < b THEN b ELSE a

\* The elements of a sequence.
Range(s) == {s[i] : i \in 1..Len(s)}

\* The subsequence of s of the elements satisfying Keep, in order.
RECURSIVE SelectIdx(_, _)
SelectIdx(s, keep) ==
    IF s = <<>> THEN <<>>
    ELSE LET rest == SelectIdx(Tail(s), {i - 1 : i \in keep \ {1}})
         IN  IF 1 \in keep THEN <<Head(s)>> \o rest ELSE rest

(***************************************************************************)
(* Labels, chunks and external keys.                                       *)
(***************************************************************************)
MetricName == "__name__"

\* labels.Labels: a function from the label names present to their values.
NoLabels == [n \in {} |-> ""]

\* labels.Labels.Get: the value of a label, "" when the label is absent.
LabelGet(metric, name) == IF name \in DOMAIN metric THEN metric[name] ELSE ""

\* The series (label sets) of the model; the fingerprint of a label set is
\* its position in this list.
SeriesList ==
    << [n \in {MetricName, "job"} |-> IF n = MetricName THEN "m" ELSE "a"],
       [n \in {MetricName, "job"} |-> IF n = MetricName THEN "m" ELSE "b"],
       [n \in {"job"} |-> "a"] >>

Fingerprint(metric) == CHOOSE i \in 1..Len(SeriesList) : SeriesList[i] = metric

\* The checksum of the encoded samples: one bit per sample timestamp.
RECURSIVE Checksum(_)
Checksum(data) ==
    IF data = {} THEN 0
    ELSE LET t == CHOOSE x \in data : TRUE
         IN  2^t + Checksum(data \ {t})

\* NewChunk followed by Encode: a chunk of a series over [from, through]
\* holding samples at the timestamps in data.
NewChunk(userID, metric, data, from, through) ==
    [UserID |-> userID, Fingerprint |-> Fingerprint(metric), Metric |-> metric,
     From |-> from, Through |-> through, Data |-> data,
     Checksum |-> Checksum(data)]

\* Chunk.ExternalKey: userID/fingerprint:from:through:checksum.
ExternalKey(chunk) ==
    <<chunk.UserID, chunk.Fingerprint, chunk.From, chunk.Through, chunk.Checksum>>

\* ParseExternalKey: the chunk reference an external key stands for; it has
\* neither labels nor samples.  A key of another tenant is an error.
ParseExternalKey(userID, chunkID) ==
    [err   |-> IF chunkID[1] # userID THEN "ErrWrongMetadata" ELSE Nil,
     chunk |-> [UserID |-> chunkID[1], Fingerprint |-> chunkID[2], Metric |-> NoLabels,
                From |-> chunkID[3], Through |-> chunkID[4], Data |-> {},
                Checksum |-> chunkID[5]]]

\* The order of external keys (the order sort.Strings gives the key strings).
KeyLess(a, b) ==
    \E i \in 1..5 : /\ \A j \in 1..(i - 1) : a[j] = b[j]
                    /\ IF i = 1 THEN a[1] = "u1" /\ b[1] = "u2" ELSE a[i] < b[i]

\* sort.Strings followed by uniqueStrings, of a set of keys.
RECURSIVE SortedKeys(_)
SortedKeys(keys) ==
    IF keys = {} THEN <<>>
    ELSE LET k == CHOOSE x \in keys : \A y \in keys \ {x} : KeyLess(x, y)
         IN  <<k>> \o SortedKeys(keys \ {k})

(***************************************************************************)
(* Schema: the index entries written for a chunk and the queries read for  *)
(* a metric, a label name or a label value.                                *)
(***************************************************************************)
Buckets(from, through) == {b \in 0..(MaxTime \div BucketSize) :
                             from \div BucketSize <= b /\ b <= through \div BucketSize}

\* strconv of a small number.
Str(n) == <<"0", "1", "2", "3", "4", "5", "6", "7", "8", "9">>[n + 1]

\* The table of a bucket: <prefix><bucketNumber>.
TableFor(b) == <<"index_" \o Str(b)>>

\* The entries of one bucket: one row under the metric, one row per label.
BucketWriteEntries(b, userID, metricName, metric, chunkID) ==
    {[TableName |-> TableFor(b), HashValue |-> <<userID, Str(b), metricName>>,
      RangeValue |-> <<"", chunkID>>, Value |-> ""]}
    \cup
    {[TableName |-> TableFor(b), HashValue |-> <<userID, Str(b), metricName, n>>,
      RangeValue |-> <<metric[n], chunkID>>, Value |-> ""] :
        n \in DOMAIN metric \ {MetricName}}

\* A set of entries as a list, in some fixed order.
RECURSIVE SetToSeq(_)
SetToSeq(S) ==
    IF S = {} THEN <<>>
    ELSE LET x == CHOOSE y \in S : TRUE IN <<x>> \o SetToSeq(S \ {x})

\* Schema.GetWriteEntries.
GetWriteEntries(from, through, userID, metricName, metric, chunkID) ==
    SetToSeq(UNION {BucketWriteEntries(b, userID, metricName, metric, chunkID) :
                      b \in Buckets(from, through)})

\* Schema.GetReadQueriesForMetric.
GetReadQueriesForMetric(from, through, userID, metricName) ==
    {[TableName |-> TableFor(b), HashValue |-> <<userID, Str(b), metricName>>] :
        b \in Buckets(from, through)}

\* Schema.GetReadQueriesForMetricLabel.
GetReadQueriesForMetricLabel(from, through, userID, metricName, labelName) ==
    {[TableName |-> TableFor(b), HashValue |-> <<userID, Str(b), metricName, labelName>>] :
        b \in Buckets(from, through)}

\* Schema.GetReadQueriesForMetricLabelValue: the rows of the label name; the
\* caller filters on the value.
GetReadQueriesForMetricLabelValue(from, through, userID, metricName, labelName, labelValue) ==
    GetReadQueriesForMetricLabel(from, through, userID, metricName, labelName)

\* parseChunkTimeRangeValue: the chunk key and the label value of a row.
parseChunkTimeRangeValue(rangeValue, value) ==
    [chunkKey |-> rangeValue[2], labelValue |-> rangeValue[1]]

(***************************************************************************)
(* Index client: write batches and their application.                      *)
(***************************************************************************)
\* The (table, hash, range) triple that identifies a row.
Triple(e) == <<e.TableName, e.HashValue, e.RangeValue>>

\* WriteBatch.Add and WriteBatch.Delete.
BatchAdd(entry) == [op |-> "Add", entry |-> entry]
BatchDelete(entry) == [op |-> "Delete", entry |-> [entry EXCEPT !.Value = ""]]

\* An index that versions its rows: an Add to a triple that has a row marks
\* the row as rewritten.  Writing a chunk twice is not idempotent on it.
ApplyOpVersioned(idx, w) ==
    LET same   == {e \in idx : Triple(e) = Triple(w.entry)}
        others == idx \ same
    IN  IF w.op = "Add"
        THEN others \cup {IF same = {} THEN w.entry
                          ELSE [w.entry EXCEPT !.Value = "rewritten"]}
        ELSE others

\* The rows of idx after one operation of a batch: Add replaces the row of
\* the same triple, Delete removes it.
ApplyOp(idx, w) ==
    LET others == {e \in idx : Triple(e) # Triple(w.entry)}
    IN  IF w.op = "Add" THEN others \cup {w.entry} ELSE others

\* IndexClient.BatchWrite: the rows after the operations of a batch, in order.
RECURSIVE ApplyBatch(_, _)
ApplyBatch(idx, batch) ==
    IF batch = <<>> THEN idx ELSE ApplyBatch(ApplyOp(idx, Head(batch)), Tail(batch))

(***************************************************************************)
(* Write path.                                                             *)
(***************************************************************************)
\* fmt.Sprintf("%x", rangeValue).
Hex(rangeValue) == <<"x", rangeValue>>

\* A key that also tells entries apart by their value: with it the loop of
\* calculateIndexEntries lets two entries of one triple through.
SeenKeyWithValue(entry) ==
    entry.TableName \o entry.HashValue \o <<Hex(entry.RangeValue), entry.Value>>

\* fmt.Sprintf("%s:%s:%x", entry.TableName, entry.HashValue, entry.RangeValue).
SeenKey(entry) == entry.TableName \o entry.HashValue \o <<Hex(entry.RangeValue)>>

\* The loop of calculateIndexEntries: the batch of the entries whose key was
\* not seen before.
RECURSIVE DedupEntries(_, _)
DedupEntries(entries, seen) ==
    IF entries = <<>> THEN <<>>
    ELSE LET e == Head(entries)
         IN  IF SeenKey(e) \in seen
             THEN DedupEntries(Tail(entries), seen)
             ELSE <<BatchAdd(e)>> \o DedupEntries(Tail(entries), seen \cup {SeenKey(e)})

\* store.calculateIndexEntries.
calculateIndexEntries(userID, from, through, chunk) ==
    LET metricName == LabelGet(chunk.Metric, MetricName)
    IN  IF metricName = ""
        THEN [err |-> "ErrMetricNameLabelMissing", batch |-> <<>>]
        ELSE [err |-> Nil,
              batch |-> DedupEntries(
                  GetWriteEntries(from, through, userID, metricName, chunk.Metric,
                                  ExternalKey(chunk)), {})]

\* Client.PutChunks: the object store after storing chunk under its key.
PutChunks(objects, chunk) ==
    {c \in objects : ExternalKey(c) # ExternalKey(chunk)} \cup {chunk}

(***************************************************************************)
(* Chunk client and fetcher.                                               *)
(***************************************************************************)
\* The chunks of a set stored under a key.
Lookup(objects, key) == {c \in objects : ExternalKey(c) = key}

\* Fetcher.FetchChunks: the chunks of keys, from the cache where it holds
\* them and from the object store otherwise; what was fetched from the
\* object store is written back to the cache unless the write-back fails.
FetchChunks(cached, objects, keys, fault, cacheFault) ==
    LET misses  == {k \in Range(keys) : Lookup(cached, k) = {}}
        missing == {k \in misses : Lookup(objects, k) = {}}
        found(k) == IF Lookup(cached, k) # {}
                    THEN CHOOSE c \in Lookup(cached, k) : TRUE
                    ELSE CHOOSE c \in Lookup(objects, k) : TRUE
    IN  IF misses # {} /\ fault
        THEN [err |-> "ErrStorage", chunks |-> <<>>, cache |-> cached]
        ELSE IF missing # {}
        THEN [err |-> "ErrStorageObjectNotFound", chunks |-> <<>>, cache |-> cached]
        ELSE [err |-> Nil,
              chunks |-> [i \in 1..Len(keys) |-> found(keys[i])],
              cache |-> IF cacheFault THEN cached
                        ELSE cached \cup {found(k) : k \in misses}]

\* Chunk.Slice: the chunk cut to [from, through]; ErrSliceNoDataInRange when
\* it holds no sample there.
Slice(chunk, from, through) ==
    LET data == {t \in chunk.Data : from <= t /\ t <= through}
    IN  IF from > chunk.Through \/ through < chunk.From
        THEN [err |-> "ErrSliceOutOfRange", chunks |-> <<>>]
        ELSE IF data = {}
        THEN [err |-> "ErrSliceNoDataInRange", chunks |-> <<>>]
        ELSE [err |-> Nil,
              chunks |-> <<NewChunk(chunk.UserID, chunk.Metric, data, from, through)>>]

\* intervalsOverlap.
intervalsOverlap(s1, e1, s2, e2) == ~(s1 > e2 \/ s2 > e1)

(***************************************************************************)
(* Read path: matchers, validation and the lookup of chunks.               *)
(***************************************************************************)
\* labels.Matcher.Matches, for the matcher types =, != and =~ (the patterns
\* ".*" and ".+").
Matches(m, v) ==
    CASE m.Type = "="  -> v = m.Value
      [] m.Type = "!=" -> v # m.Value
      [] m.Type = "=~" -> IF m.Value = ".+" THEN v # "" ELSE TRUE

NoMatcher == [Type |-> "none", Name |-> "", Value |-> ""]

\* extract.MetricNameMatcherFromMatchers: the first matcher on the metric
\* name and the other matchers.
MetricNameMatcherFromMatchers(matchers) ==
    LET named == {i \in 1..Len(matchers) : matchers[i].Name = MetricName}
    IN  IF named = {}
        THEN [ok |-> FALSE, matcher |-> NoMatcher, matchers |-> matchers]
        ELSE LET i == CHOOSE x \in named : \A y \in named : x <= y
             IN  [ok |-> TRUE, matcher |-> matchers[i],
                  matchers |-> SelectIdx(matchers, (1..Len(matchers)) \ {i})]

\* A validation without the shortcut for ranges in the future.
fromNeverAfter(from, now) == FALSE

\* Line 681, from.After(now): the whole range lies in the future.
fromAfter(from, now) == from > now

\* A clamp to the end of the tolerated future instead of to now.
clampThroughLate(through, now) ==
    IF through > now + FiveMinutes THEN now + FiveMinutes ELSE through

\* Lines 694-698: a through later than now + 5 minutes becomes now.
clampThrough(through, now) ==
    IF through > now + FiveMinutes THEN now ELSE through

\* store.validateQueryTimeRange.  clock is model.Now() of line 679 and
\* clock2 the one of line 688.
validateQueryTimeRange(cfg, from, through, clock, clock2) ==
    IF through < from
    THEN [err |-> "400 through < from", shortcut |-> FALSE, from |-> from, through |-> through]
    ELSE IF cfg.MaxQueryLength > 0 /\ through - from > cfg.MaxQueryLength
    THEN [err |-> "400 query too long", shortcut |-> FALSE, from |-> from, through |-> through]
    ELSE IF fromAfter(from, clock)
    THEN [err |-> Nil, shortcut |-> TRUE, from |-> from, through |-> through]
    ELSE LET oldestStartTime == clock2 - cfg.MaxLookBackPeriod
             from2 == IF cfg.MaxLookBackPeriod # 0 /\ oldestStartTime > from
                      THEN oldestStartTime ELSE from
             through2 == clampThrough(through, clock)
         IN  [err |-> Nil, shortcut |-> FALSE, from |-> from2, through |-> through2]

\* A check that takes any matcher list as naming the metric.
anyMatcherOk(x) == TRUE

\* Line 717: there is a matcher on the metric name and it is an equality.
metricNameMatcherOk(x) == x.ok /\ x.matcher.Type = "="

\* store.validateQuery.
validateQuery(cfg, from, through, matchers, clock, clock2) ==
    LET v == validateQueryTimeRange(cfg, from, through, clock, clock2)
        x == MetricNameMatcherFromMatchers(matchers)
        none == [v EXCEPT !.shortcut = FALSE] @@ [metricName |-> "", matchers |-> <<>>]
    IN  IF v.err # Nil THEN none
        ELSE IF v.shortcut THEN [none EXCEPT !.shortcut = TRUE]
        ELSE IF ~metricNameMatcherOk(x)
        THEN [none EXCEPT !.err = "400 query must contain metric name"]
        ELSE [none EXCEPT !.metricName = x.matcher.Value, !.matchers = x.matchers]

\* util.SplitFiltersAndMatchers: a matcher that matches "" is a filter.
SplitFiltersAndMatchers(allMatchers) ==
    LET f == {i \in 1..Len(allMatchers) : Matches(allMatchers[i], "")}
    IN  [filters  |-> SelectIdx(allMatchers, f),
         matchers |-> SelectIdx(allMatchers, (1..Len(allMatchers)) \ f)]

\* A lookup that collects no row.
lookupNoEntries(idx, queries) == {}

\* IndexClient.QueryPages as store.lookupEntriesByQueries collects it: the
\* rows of the tables and hash values queried.
lookupEntriesByQueries(idx, queries) ==
    {e \in idx : \E q \in queries : e.TableName = q.TableName /\ e.HashValue = q.HashValue}

\* A parse that skips no row, whatever the matcher.
skipNoEntry(matcher, labelValue) == FALSE

\* Line 882: a row whose label value the matcher rejects is skipped; nil
\* (NoMatcher) rejects nothing.
skipEntry(matcher, labelValue) == matcher.Type # "none" /\ ~Matches(matcher, labelValue)

\* store.parseIndexEntries: the chunk keys of the rows whose label value the
\* matcher accepts, sorted and without duplicates.
parseIndexEntries(entries, matcher) ==
    SortedKeys({parseChunkTimeRangeValue(e.RangeValue, e.Value).chunkKey :
                  e \in {x \in entries :
                           ~skipEntry(matcher,
                                parseChunkTimeRangeValue(x.RangeValue, x.Value).labelValue)}})

\* intersectStrings: the merge of two sorted key lists.
RECURSIVE intersectStrings(_, _)
intersectStrings(left, right) ==
    IF left = <<>> \/ right = <<>> THEN <<>>
    ELSE IF Head(left) = Head(right)
    THEN <<Head(left)>> \o intersectStrings(left, Tail(right))
    ELSE IF KeyLess(Head(left), Head(right))
    THEN intersectStrings(Tail(left), right)
    ELSE intersectStrings(left, Tail(right))

\* store.convertChunkIDsToChunks.
convertChunkIDsToChunks(userID, chunkIDs) ==
    LET parsed == [i \in 1..Len(chunkIDs) |-> ParseExternalKey(userID, chunkIDs[i])]
        bad == {i \in 1..Len(chunkIDs) : parsed[i].err # Nil}
    IN  IF bad # {}
        THEN [err |-> parsed[CHOOSE i \in bad : \A j \in bad : i <= j].err, chunks |-> <<>>]
        ELSE [err |-> Nil, chunks |-> [i \in 1..Len(chunkIDs) |-> parsed[i].chunk]]

\* The queries of one matcher task (lines 794-798).
matcherQueries(from, through, userID, metricName, matcher) ==
    IF matcher.Type # "="
    THEN GetReadQueriesForMetricLabel(from, through, userID, metricName, matcher.Name)
    ELSE GetReadQueriesForMetricLabelValue(from, through, userID, metricName,
                                           matcher.Name, matcher.Value)

\* A coordinator that takes an empty list of chunk ids for no list yet.
chunkIDsEmpty(acc) == acc.chunkIDs = <<>>

\* Line 829: chunkIDs == nil, which holds until the first list has arrived.
chunkIDsNil(acc) == acc.isNil

\* A coordinator that keeps the first error it receives.
firstError(lastErr, err) == IF lastErr # Nil THEN lastErr ELSE err

\* Lines 834-835: lastErr = err.
lastError(lastErr, err) == err

\* The error the index read of matcher task i fails with.
taskError(i) == "index read failed: matcher " \o Str(i)

\* The coordinator of lines 824-838 after the results of the tasks in
\* arrival order: the key list (isNil before the first list) and the last
\* error.
RECURSIVE receive(_, _)
receive(incoming, acc) ==
    IF incoming = <<>> THEN acc
    ELSE LET m == Head(incoming)
         IN  receive(Tail(incoming),
                IF m.err # Nil THEN [acc EXCEPT !.lastErr = lastError(acc.lastErr, m.err)]
                ELSE IF chunkIDsNil(acc)
                THEN [acc EXCEPT !.isNil = FALSE, !.chunkIDs = m.chunkIDs]
                ELSE [acc EXCEPT !.chunkIDs = intersectStrings(acc.chunkIDs, m.chunkIDs)])

\* store.lookupChunksByMetricName.  failing holds the matcher tasks (0: the
\* lookup without matchers) whose index read fails; order is the order in
\* which the tasks' results arrive.
lookupChunksByMetricName(idx, userID, from, through, matchers, metricName, failing, order) ==
    IF Len(matchers) = 0
    THEN LET queries == GetReadQueriesForMetric(from, through, userID, metricName)
             ids == parseIndexEntries(lookupEntriesByQueries(idx, queries), NoMatcher)
             conv == convertChunkIDsToChunks(userID, ids)
         IN  IF 0 \in failing
             THEN [err |-> "index read failed", chunks |-> <<>>, queries |-> queries,
                   cands |-> <<>>]
             ELSE [err |-> conv.err, chunks |-> conv.chunks, queries |-> queries,
                   cands |-> <<ids>>]
    ELSE LET q(i) == matcherQueries(from, through, userID, metricName, matchers[i])
             task(i) == IF i \in failing
                        THEN [err |-> taskError(i), chunkIDs |-> <<>>]
                        ELSE [err |-> Nil,
                              chunkIDs |-> parseIndexEntries(
                                  lookupEntriesByQueries(idx, q(i)), matchers[i])]
             got == receive([k \in 1..Len(matchers) |-> task(order[k])],
                            [isNil |-> TRUE, chunkIDs |-> <<>>, lastErr |-> Nil])
             conv == convertChunkIDsToChunks(userID, got.chunkIDs)
             queries == UNION {q(i) : i \in 1..Len(matchers)}
             cands == [i \in 1..Len(matchers) |-> task(i).chunkIDs]
         IN  IF got.lastErr # Nil
             THEN [err |-> got.lastErr, chunks |-> <<>>, queries |-> queries, cands |-> cands]
             ELSE [err |-> conv.err, chunks |-> conv.chunks, queries |-> queries,
                   cands |-> cands]

\* filterChunksByTime: the chunks whose interval overlaps [from, through].
filterChunksByTime(from, through, cs) ==
    SelectIdx(cs, {i \in 1..Len(cs) : ~(cs[i].Through < from \/ through < cs[i].From)})

\* filterChunksByMatchers: the chunks whose labels every filter accepts.
filterChunksByMatchers(cs, filters) ==
    SelectIdx(cs, {i \in 1..Len(cs) :
                     \A f \in Range(filters) : Matches(f, LabelGet(cs[i].Metric, f.Name))})

\* keysFromChunks.
keysFromChunks(cs) == [i \in 1..Len(cs) |-> ExternalKey(cs[i])]

\* filterChunksByUniqueFingerprint: the first chunk of every fingerprint.
filterChunksByUniqueFingerprint(cs) ==
    SelectIdx(cs, {i \in 1..Len(cs) :
                     \A j \in 1..(i - 1) : cs[j].Fingerprint # cs[i].Fingerprint})

(***************************************************************************)
(* State.                                                                  *)
(***************************************************************************)
VARIABLES
    index,    \* the rows of the index (IndexClient)
    chunks,   \* the encoded chunks of the object store (Client)
    cache,    \* the encoded chunks of the chunk cache (Fetcher)
    cfg,      \* StoreConfig and StoreLimits of the store
    call,     \* the store call in progress, or the last one and its result
    nCalls,   \* Put and DeleteChunk calls started so far
    written   \* history: the chunks whose PutOne returned nil and that no
              \* DeleteChunk has named since

storeVars == <<index, chunks, cache, cfg, call, nCalls, written>>

\* The UserStore of package querier (lines 34-407).
VARIABLES
    stores,    \* u.stores: user id -> the BucketStore kept for it, 0 for none
    storesMu,  \* u.storesMu: the goroutine holding the write lock and the
               \* goroutines holding a read lock
    built,     \* history: built[s] is the user id BucketStore s was built for
    procs,     \* the goroutines that call into the UserStore
    touched    \* history: the user ids of the requests and the BucketStores
               \* they called

userStoreVars == <<stores, storesMu, built, procs, touched>>

\* The service of the UserStore and its syncUserStores (lines 92-242).
VARIABLES
    svc,       \* the service: its state, its configuration, its position,
               \* and in fault the first error that came up in starting
    sync,      \* the syncUserStores in progress
    workers,   \* the worker goroutines of the syncUserStores in progress
    ran        \* history: the per-tenant sync functions run in the initial
               \* sync and in the periodic sync that began last

syncVars == <<svc, sync, workers, ran>>

\* The table scanner (src/unnamed/part_000).
VARIABLES
    scanner,     \* main: its flags and its position
    handlers,    \* handlers[segment]: the handler of the segment, with its counts
    totals,      \* the merged summary that main prints
    pageCounter, \* cortex_pages_scanned_total of the table
    reindexed,   \* the number of IndexChunk calls that succeeded
    scanned      \* history: per tenant id, the rows scanned whose OrgFromHash is it

scanVars == <<scanner, handlers, totals, pageCounter, reindexed, scanned>>

\* The matcher fan-out of lookupChunksByMetricName (lines 786-841), step by
\* step.
VARIABLES
    fan,       \* the coordinator: the query, its position, the chunk ids and the
               \* last error it holds, in late the messages it took in after
               \* the context was done and in arrived the goroutines in the
               \* order their messages arrived
    matcherTasks, \* matcherTasks[i]: the goroutine of matcher i and its message
    ctxDone    \* the context of the query is cancelled

fanVars == <<fan, matcherTasks, ctxDone>>

\* A second goroutine that calls into the chunk store.
VARIABLES
    peer       \* the store call of the goroutine that is not running: call
               \* holds the call of the goroutine that is

peerVars == <<peer>>

vars == <<storeVars, userStoreVars, syncVars, scanVars, fanVars, peerVars>>

\* What the calls of the chunk store leave alone.
outsideStore == <<userStoreVars, syncVars, scanVars, fanVars, peerVars>>

\* What the UserStore leaves alone.
outsideUserStore == <<storeVars, scanVars, fanVars, peerVars>>

\* What the scanner leaves alone.
outsideScan == <<storeVars, userStoreVars, syncVars, fanVars, peerVars>>

\* What the matcher fan-out leaves alone.
outsideFan == <<storeVars, userStoreVars, syncVars, scanVars, peerVars>>

\* No query is fanned out.
NoFan ==
    /\ fan = [pc |-> "idle", matchers |-> <<>>, i |-> 0, chunkIDs |-> <<>>, isNil |-> TRUE,
              lastErr |-> Nil, late |-> 0, n |-> 0, arrived |-> <<>>]
    /\ matcherTasks = <<>>
    /\ ctxDone = FALSE

\* strconv.Atoi on the tenant ids of the hash values.
Atoi(str) ==
    CASE str = "-1" -> -1
      [] str = "0"  -> 0
      [] str = "3"  -> 3
      [] str = "8"  -> 8

\* The tenant ids of the rows of the table.
OrgIDs == {Atoi(str) : str \in {"-1", "0", "3", "8"}}

\* main before the scan: no handler yet.
NoScan ==
    /\ scanner = [pc |-> "flags", segments |-> 0, orgs |-> {}, reindexTablePrefix |-> "",
                  pages |-> 0, rows |-> 0]
    /\ handlers = <<>>
    /\ totals = <<>>
    /\ pageCounter = 0
    /\ reindexed = 0
    /\ scanned = [t \in OrgIDs |-> 0]

\* The user ids.
Users == {<<"a">>, <<"b">>}

\* The goroutines: the service goroutine, which runs starting and the sync
\* loop, and the goroutines of callers and of the gRPC server.
ServiceProc == "service"
Procs == {ServiceProc, "g1", "g2"}

NoStore == 0
NoMetadata == [ok |-> FALSE, user |-> <<>>]
\* seen is the store kept for the user when the call began and invoked
\* whether the call has called a BucketStore.
IdleProc == [op |-> "idle", pc |-> "idle", md |-> NoMetadata, user |-> <<>>,
             bs |-> NoStore, resp |-> Nil, err |-> Nil, seen |-> NoStore,
             invoked |-> FALSE]
Unlocked == [writer |-> Nil, readers |-> {}]
NoJob == [userID |-> <<>>, store |-> NoStore]
\* n counts the calls of syncUserStores; sent holds the users of the jobs
\* sent on the channel and processed the worker and the user of every call
\* of the sync function, both in the order they happened.
NoSync == [pc |-> "idle", f |-> Nil, i |-> 0, job |-> NoJob, closed |-> FALSE,
           err |-> Nil, n |-> 0, sent |-> <<>>, processed |-> <<>>]

\* NewUserStore, lines 59-90: no store is kept, and the service is new.
NewUserStore(c, bucketClient) ==
    /\ stores = [u \in Users |-> NoStore]
    /\ storesMu = Unlocked
    /\ built = <<>>
    /\ procs = [p \in Procs |-> IdleProc]
    /\ touched = {}
    /\ svc = [state |-> "New", pc |-> "new", cfg |-> c, bucket |-> bucketClient,
              err |-> Nil, fault |-> Nil, elapsed |-> 0, rounds |-> 0, warned |-> 0]
    /\ sync = NoSync
    /\ workers = <<>>
    /\ ran = {}

\* tsdb.Config of a querier that syncs with one worker.
DefaultBucketStoreCfg == [SyncInterval |-> 1, TenantSyncConcurrency |-> 1]

\* The chunks callers hand to Put.
BaseChunks ==
    { NewChunk("u1", SeriesList[1], {1, 2, 4}, 1, 4),
      NewChunk("u1", SeriesList[2], {4}, 3, 5),
      NewChunk("u1", SeriesList[3], {0}, 0, 1) }

NoPartial == [set |-> FALSE, Start |-> 0, End |-> 0]
NoDel == [from |-> 0, through |-> 0, userID |-> "", chunkID |-> <<>>,
          metric |-> NoLabels, partial |-> NoPartial]

\* What a read call was asked and what it did and returned.
NoRes == [userID |-> "", from |-> 0, through |-> 0, matchers |-> <<>>,
          metricName |-> "", labelName |-> "", now |-> 0,
          shortcut |-> FALSE, schema |-> {}, indexRead |-> FALSE,
          cands |-> <<>>, filterRange |-> <<>>, limitCount |-> -1,
          fetched |-> <<>>, fetchCalled |-> FALSE, chunks |-> <<>>, strings |-> {},
          lastFailed |-> 0, validated |-> <<>>]

\* No call: putq holds the chunks a call puts and i the one PutOne is at,
\* chunk the chunk reboundChunk fetched, stored and wrote tell which writes
\* the current PutOne has made.
\* calls holds the storage calls a DeleteChunk has issued, indexErr what the
\* index.BatchWrite of its delete batch returned and clientErr what
\* chunks.DeleteChunk returned; round counts the calls of a caller
\* that repeats a DeleteChunk, and snap is the storage when the call began.
\* fetchErr is what FetchChunks returned to reboundChunk.
Idle == [op |-> "idle", pc |-> "idle", putq |-> <<>>, i |-> 0, del |-> NoDel,
         chunk |-> <<>>, err |-> Nil, stored |-> FALSE, wrote |-> FALSE, res |-> NoRes,
         calls |-> {}, indexErr |-> Nil, clientErr |-> Nil, round |-> 0, snap |-> <<>>,
         fetchErr |-> Nil]

\* The flag defaults (line 477) and limits that never refuse a query.
DefaultCfg == [MaxQueryLength |-> 0, MaxLookBackPeriod |-> 0, MaxChunksPerQuery |-> 0]

\* No second goroutine has called.
NoPeer == peer = Idle

Init ==
    /\ index = {}
    /\ chunks = {}
    /\ cache = {}
    /\ cfg = DefaultCfg
    /\ call = Idle
    /\ nCalls = 0
    /\ written = {}
    /\ NewUserStore(DefaultBucketStoreCfg, <<>>)
    /\ NoScan
    /\ NoFan
    /\ NoPeer

\* The chunk store before its first call.
EmptyStore ==
    /\ index = {}
    /\ chunks = {}
    /\ cache = {}
    /\ cfg = DefaultCfg
    /\ call = Idle
    /\ nCalls = 0
    /\ written = {}

\* The call is over: its result stays in call until the caller takes it.
Done(c, err) == [c EXCEPT !.pc = "done", !.err = err]

(***************************************************************************)
(* Put and PutOne.                                                         *)
(***************************************************************************)
\* A PutOne that starts with the index write.
PutOneIndexFirst == "BatchWrite"

\* The label of PutOne's first statement (line 532).
PutOneEntry == "PutChunks"

\* store.Put: the loop over the chunks, entering PutOne for the first.
Put(cs) ==
    /\ call.pc = "idle"
    /\ nCalls < MaxCalls
    /\ nCalls' = nCalls + 1
    /\ call' = [Idle EXCEPT !.op = "Put", !.pc = PutOneEntry, !.putq = cs, !.i = 1]
    /\ UNCHANGED <<index, chunks, cache, cfg, written>>
    /\ UNCHANGED outsideStore

\* A Put that goes on to the next chunk when a PutOne fails.
PutOneReturnGoOn(c, err) ==
    IF c.i < Len(c.putq)
    THEN [c EXCEPT !.i = c.i + 1, !.pc = "PutChunks", !.stored = FALSE, !.wrote = FALSE]
    ELSE IF c.op = "Put" THEN Done(c, err)
    ELSE [c EXCEPT !.pc = "deleteIndex"]

\* The return of PutOne for chunk i of the queue: Put returns the first
\* error and goes on to the next chunk otherwise; deleteChunk wraps the
\* error of reboundChunk and goes on to the index delete otherwise.
PutOneReturn(c, err) ==
    IF err # Nil THEN Done(c, err)
    ELSE IF c.i < Len(c.putq)
    THEN [c EXCEPT !.i = c.i + 1, !.pc = PutOneEntry, !.stored = FALSE, !.wrote = FALSE]
    ELSE IF c.op = "Put" THEN Done(c, Nil)
    ELSE [c EXCEPT !.pc = "deleteIndex"]

\* PutOne, line 532: c.storage.PutChunks.
PutOnePutChunks(fail) ==
    /\ call.pc = "PutChunks"
    /\ IF fail
       THEN /\ call' = PutOneReturn([call EXCEPT !.calls = @ \cup {"PutChunks"}],
                                    "PutChunks failed")
            /\ UNCHANGED chunks
       ELSE /\ chunks' = PutChunks(chunks, call.putq[call.i])
            /\ call' = [call EXCEPT !.pc = "writeBackCache", !.stored = TRUE,
                                    !.calls = @ \cup {"PutChunks"}]
    /\ UNCHANGED <<index, cache, cfg, nCalls, written>>
    /\ UNCHANGED outsideStore

\* A PutOne that returns the error of the cache write-back.
PutOneWriteBackCacheFatal(fail) ==
    /\ call.pc = "writeBackCache"
    /\ cache' = IF fail THEN cache ELSE PutChunks(cache, call.putq[call.i])
    /\ call' = IF fail THEN Done(call, "writeBackCache failed")
               ELSE [call EXCEPT !.pc = "BatchWrite"]
    /\ UNCHANGED <<index, chunks, cfg, nCalls, written>>
    /\ UNCHANGED outsideStore

\* PutOne, line 537: c.writeBackCache; its error is logged.
PutOneWriteBackCache(fail) ==
    /\ call.pc = "writeBackCache"
    /\ cache' = IF fail THEN cache ELSE PutChunks(cache, call.putq[call.i])
    /\ call' = [call EXCEPT !.pc = "BatchWrite"]
    /\ UNCHANGED <<index, chunks, cfg, nCalls, written>>
    /\ UNCHANGED outsideStore

\* PutOne, lines 541-546: calculateIndexEntries and c.index.BatchWrite.
PutOneBatchWrite(fail) ==
    /\ call.pc = "BatchWrite"
    /\ LET chunk == call.putq[call.i]
           calc  == calculateIndexEntries(chunk.UserID, chunk.From, chunk.Through, chunk)
       IN  IF calc.err # Nil
           THEN /\ call' = PutOneReturn(call, calc.err)
                /\ UNCHANGED <<index, written>>
           ELSE IF fail
           THEN /\ call' = PutOneReturn([call EXCEPT !.calls = @ \cup {"BatchWrite"}],
                                        "BatchWrite failed")
                /\ UNCHANGED <<index, written>>
           ELSE /\ index' = ApplyBatch(index, calc.batch)
                /\ call' = PutOneReturn([call EXCEPT !.wrote = TRUE,
                                                     !.calls = @ \cup {"BatchWrite"}], Nil)
                /\ written' = written \cup {chunk}
    /\ UNCHANGED <<chunks, cache, cfg, nCalls>>
    /\ UNCHANGED outsideStore

(***************************************************************************)
(* DeleteChunk, deleteChunk and reboundChunk.                              *)
(***************************************************************************)
\* The intervals a partial delete names.
Intervals == UNION {{[set |-> TRUE, Start |-> s, End |-> e] :
                         e \in s..Min(s + 1, MaxTime)} : s \in Time}

\* store.DeleteChunk with deleteChunk up to its first storage call: the
\* metric name is required; a partial delete goes through reboundChunk.
DeleteChunk(from, through, userID, chunkID, metric, partial) ==
    /\ call.pc = "idle"
    /\ nCalls < MaxCalls
    /\ nCalls' = nCalls + 1
    /\ LET c == [Idle EXCEPT !.op = "DeleteChunk", !.round = 1,
                             !.del = [from |-> from, through |-> through,
                                      userID |-> userID, chunkID |-> chunkID,
                                      metric |-> metric, partial |-> partial]]
       IN  call' = IF LabelGet(metric, MetricName) = ""
                   THEN Done(c, "ErrMetricNameLabelMissing")
                   ELSE IF partial.set THEN [c EXCEPT !.pc = "reboundChunk"]
                   ELSE [c EXCEPT !.pc = "deleteIndex"]
    /\ written' = {w \in written : ExternalKey(w) # chunkID}
    /\ UNCHANGED <<index, chunks, cache, cfg>>
    /\ UNCHANGED outsideStore

\* reboundChunk, lines 986-1008: the chunks left of and right of the
\* deleted interval that hold samples.
newChunks(chunk, partial) ==
    LET left  == IF partial.Start > chunk.From
                 THEN Slice(chunk, chunk.From, partial.Start - 1)
                 ELSE [err |-> Nil, chunks |-> <<>>]
        right == IF partial.End < chunk.Through
                 THEN Slice(chunk, partial.End + 1, chunk.Through)
                 ELSE [err |-> Nil, chunks |-> <<>>]
        bad(r) == r.err # Nil /\ r.err # "ErrSliceNoDataInRange"
    IN  IF bad(left) THEN [err |-> left.err, chunks |-> <<>>]
        ELSE IF bad(right) THEN [err |-> right.err, chunks |-> <<>>]
        ELSE [err |-> Nil, chunks |-> left.chunks \o right.chunks]

\* A reboundChunk that fetches whatever the interval is.
neverNoOverlap(chunk, partial) == FALSE

\* reboundChunk, line 970: the deleted interval misses the chunk.
noOverlap(chunk, partial) ==
    ~intervalsOverlap(chunk.From, chunk.Through, partial.Start, partial.End)

\* reboundChunk up to its first Put: parse the key, check the overlap, fetch
\* the chunk and slice it.  The new chunks are then put one by one through
\* PutOne.
\* A reboundChunk that takes every error of the fetch for success.
swallowedAny(err) == TRUE

\* reboundChunk, lines 976-978: the not-found sentinel of the fetch is
\* success, and deleteChunk goes on.
swallowed(err) == err = "ErrStorageObjectNotFound"

reboundChunk(fetchFail, cacheFail) ==
    /\ call.pc = "reboundChunk"
    /\ LET d      == call.del
           parsed == ParseExternalKey(d.userID, d.chunkID)
           chunk  == parsed.chunk
           got    == FetchChunks(cache, chunks, <<d.chunkID>>, fetchFail, cacheFail)
           new    == newChunks(got.chunks[1], d.partial)
           f      == [call EXCEPT !.calls = @ \cup {"FetchChunks"},
                                  !.fetchErr = got.err]
       IN  IF parsed.err # Nil
           THEN call' = Done(call, parsed.err) /\ UNCHANGED cache
           ELSE IF noOverlap(chunk, d.partial)
           THEN call' = Done(call, "ErrParialDeleteChunkNoOverlap") /\ UNCHANGED cache
           ELSE IF got.err # Nil /\ swallowed(got.err)
           THEN call' = [f EXCEPT !.pc = "deleteIndex"] /\ UNCHANGED cache
           ELSE IF got.err # Nil
           THEN call' = Done(f, got.err) /\ UNCHANGED cache
           ELSE /\ cache' = got.cache
                /\ LET c == [f EXCEPT !.chunk = got.chunks]
                   IN  call' = IF new.err # Nil THEN Done(c, new.err)
                               ELSE IF new.chunks = <<>> THEN [c EXCEPT !.pc = "deleteIndex"]
                               ELSE [c EXCEPT !.pc = PutOneEntry, !.putq = new.chunks,
                                              !.i = 1]
    /\ UNCHANGED <<index, chunks, cfg, nCalls, written>>
    /\ UNCHANGED outsideStore

\* A deleteChunk that leaves the index alone.
deleteBatchEmpty(d) == <<>>

\* DeleteChunk, line 912, and deleteChunk, lines 943-946: the delete batch
\* of the entries the chunk was written with.
deleteBatch(d) ==
    LET entries == GetWriteEntries(d.from, d.through, d.userID,
                                   LabelGet(d.metric, MetricName), d.metric, d.chunkID)
    IN  [i \in 1..Len(entries) |-> BatchDelete(entries[i])]

\* A deleteChunk that goes on to the payload when the index write failed.
deleteChunkIndexGoOn(fail) ==
    /\ call.pc = "deleteIndex"
    /\ index' = IF fail THEN index ELSE ApplyBatch(index, deleteBatch(call.del))
    /\ call' = [call EXCEPT !.pc = "deletePayload",
                            !.calls = @ \cup {"index.BatchWrite"},
                            !.indexErr = IF fail THEN "BatchWrite failed" ELSE Nil]
    /\ UNCHANGED <<chunks, cache, cfg, nCalls, written>>
    /\ UNCHANGED outsideStore

\* deleteChunk, lines 948-951: c.index.BatchWrite of the delete batch; its
\* failure is returned before the payload is touched.
deleteChunkIndex(fail) ==
    /\ call.pc = "deleteIndex"
    /\ LET c == [call EXCEPT !.calls = @ \cup {"index.BatchWrite"},
                             !.indexErr = IF fail THEN "BatchWrite failed" ELSE Nil]
       IN  IF fail
           THEN call' = Done(c, "when deleting index entries: " \o c.indexErr)
                /\ UNCHANGED index
           ELSE /\ index' = ApplyBatch(index, deleteBatch(call.del))
                /\ call' = [c EXCEPT !.pc = "deletePayload"]
    /\ UNCHANGED <<chunks, cache, cfg, nCalls, written>>
    /\ UNCHANGED outsideStore

\* ChunkClient.DeleteChunk: a client that reports the not-found sentinel
\* for an object it does not hold.
ClientDeleteChunk(objects, chunkID, fail) ==
    IF fail THEN [err |-> "DeleteChunk failed", objects |-> objects]
    ELSE IF Lookup(objects, chunkID) = {}
    THEN [err |-> "ErrStorageObjectNotFound", objects |-> objects]
    ELSE [err |-> Nil, objects |-> objects \ Lookup(objects, chunkID)]

\* A deleteChunk that returns every error of the payload delete.
deleteChunkResultStrict(err) ==
    IF err = Nil THEN Nil ELSE "when deleting chunk from storage: " \o err

\* deleteChunk, lines 954-961: the not-found sentinel is success, any other
\* error is wrapped and returned.
deleteChunkResult(err) ==
    IF err = Nil \/ err = "ErrStorageObjectNotFound" THEN Nil
    ELSE "when deleting chunk from storage: " \o err

\* deleteChunk, line 953: c.chunks.DeleteChunk.
deleteChunkPayload(fail) ==
    /\ call.pc = "deletePayload"
    /\ LET r == ClientDeleteChunk(chunks, call.del.chunkID, fail)
       IN  /\ chunks' = r.objects
           /\ call' = Done([call EXCEPT !.calls = @ \cup {"chunks.DeleteChunk"},
                                        !.clientErr = r.err],
                           deleteChunkResult(r.err))
    /\ UNCHANGED <<index, cache, cfg, nCalls, written>>
    /\ UNCHANGED outsideStore

\* A caller that repeats the DeleteChunk that has just succeeded, with the
\* same arguments.
DeleteChunkAgain ==
    /\ call.pc = "done"
    /\ call.op = "DeleteChunk"
    /\ call.err = Nil
    /\ call.round = 1
    /\ LET c == [Idle EXCEPT !.op = "DeleteChunk", !.round = 2,
                             !.snap = <<index, chunks, cache>>, !.del = call.del]
       IN  call' = IF call.del.partial.set THEN [c EXCEPT !.pc = "reboundChunk"]
                   ELSE [c EXCEPT !.pc = "deleteIndex"]
    /\ UNCHANGED <<index, chunks, cache, cfg, nCalls, written>>
    /\ UNCHANGED outsideStore

(***************************************************************************)
(* Get, LabelValuesForMetricName and LabelNamesForMetricName.              *)
(***************************************************************************)
\* A getMetricNameChunks that leaves the time filter out.
unfilteredByTime(from, through, cs) == cs

\* Line 737: filtered := filterChunksByTime(from, through, chunks).
filteredByTime(from, through, cs) == filterChunksByTime(from, through, cs)

\* A check that takes a limit of 0 for a limit.
tooManyChunksOfAny(maxChunksPerQuery, n) == n > maxChunksPerQuery

\* Line 741: maxChunksPerQuery > 0 && len(filtered) > maxChunksPerQuery.
tooManyChunks(maxChunksPerQuery, n) == maxChunksPerQuery > 0 /\ n > maxChunksPerQuery

\* The failing matcher task whose message arrives last in an order of
\* arrival, 0 when no task of the order fails.
LastFailing(failing, order) ==
    LET at == {k \in 1..Len(order) : order[k] \in failing}
    IN  IF at = {} THEN 0 ELSE order[CHOOSE k \in at : \A j \in at : j <= k]

\* store.getMetricNameChunks, on the record r of the call; lastFailed keeps
\* which failing matcher task reported last.
getMetricNameChunks(r, from, through, allMatchers, metricName, failing, order, fetchFail, cacheFail) ==
    LET split    == SplitFiltersAndMatchers(allMatchers)
        found    == lookupChunksByMetricName(index, r.userID, from, through, split.matchers,
                                             metricName, failing, order)
        filtered == filteredByTime(from, through, found.chunks)
        keys     == keysFromChunks(filtered)
        got      == FetchChunks(cache, chunks, keys, fetchFail, cacheFail)
        r1 == [r EXCEPT !.metricName = metricName, !.schema = {<<from, through>>},
                        !.indexRead = TRUE, !.cands = found.cands,
                        !.lastFailed = LastFailing(failing, order)]
        r2 == [r1 EXCEPT !.filterRange = <<from, through>>, !.limitCount = Len(filtered)]
        r3 == [r2 EXCEPT !.fetchCalled = TRUE, !.fetched = keys]
    IN  IF found.err # Nil THEN [err |-> found.err, res |-> r1, cache |-> cache]
        ELSE IF tooManyChunks(cfg.MaxChunksPerQuery, Len(filtered))
        THEN [err |-> "400 fetched too many chunks", res |-> r2, cache |-> cache]
        ELSE IF got.err # Nil
        THEN [err |-> "ErrStorage", res |-> r3, cache |-> cache]
        ELSE [err |-> Nil,
              res |-> [r3 EXCEPT !.chunks = filterChunksByMatchers(got.chunks, split.filters)],
              cache |-> got.cache]

\* The orders in which the results of n matcher tasks can arrive.
Orders(n) == IF n = 0 THEN {<<>>} ELSE Permutations(1..n)

\* The indexable matchers of a query, when it passes validation.
Indexable(allMatchers) ==
    SplitFiltersAndMatchers(MetricNameMatcherFromMatchers(allMatchers).matchers).matchers

\* store.Get.
Get(userID, from, through, allMatchers, clock, clock2, failing, order, fetchFail, cacheFail) ==
    /\ call.pc = "idle"
    /\ LET r == [NoRes EXCEPT !.userID = userID, !.from = from, !.through = through,
                              !.matchers = allMatchers, !.now = clock]
           v == validateQuery(cfg, from, through, allMatchers, clock, clock2)
           g == getMetricNameChunks(r, v.from, v.through, v.matchers, v.metricName,
                                    failing, order, fetchFail, cacheFail)
           c == [Idle EXCEPT !.op = "Get"]
       IN  IF v.err # Nil
           THEN call' = Done([c EXCEPT !.res = r], v.err) /\ UNCHANGED cache
           ELSE IF v.shortcut
           THEN call' = Done([c EXCEPT !.res = [r EXCEPT !.shortcut = TRUE]], Nil)
                /\ UNCHANGED cache
           ELSE call' = Done([c EXCEPT !.res = g.res], g.err) /\ cache' = g.cache
    /\ UNCHANGED <<index, chunks, cfg, nCalls, written>>
    /\ UNCHANGED outsideStore

\* store.LabelValuesForMetricName.
LabelValuesForMetricName(userID, from, through, metricName, labelName, clock, clock2, fail) ==
    /\ call.pc = "idle"
    /\ LET r == [NoRes EXCEPT !.userID = userID, !.from = from, !.through = through,
                              !.metricName = metricName, !.labelName = labelName,
                              !.now = clock]
           v == validateQueryTimeRange(cfg, from, through, clock, clock2)
           queries == GetReadQueriesForMetricLabel(v.from, v.through, userID, metricName,
                                                   labelName)
           entries == lookupEntriesByQueries(index, queries)
           r1 == [r EXCEPT !.schema = {<<v.from, v.through>>}, !.indexRead = TRUE]
           c == [Idle EXCEPT !.op = "LabelValuesForMetricName"]
       IN  call' =
             IF v.err # Nil THEN Done([c EXCEPT !.res = r], v.err)
             ELSE IF v.shortcut THEN Done([c EXCEPT !.res = [r EXCEPT !.shortcut = TRUE]], Nil)
             ELSE IF fail THEN Done([c EXCEPT !.res = r1], "index read failed")
             ELSE Done([c EXCEPT !.res = [r1 EXCEPT !.strings =
                         {parseChunkTimeRangeValue(e.RangeValue, e.Value).labelValue :
                            e \in entries}]], Nil)
    /\ UNCHANGED <<index, chunks, cache, cfg, nCalls, written>>
    /\ UNCHANGED outsideStore

\* labelNamesFromChunks.
labelNamesFromChunks(cs) == UNION {DOMAIN cs[i].Metric : i \in 1..Len(cs)}

\* store.LabelNamesForMetricName.
LabelNamesForMetricName(userID, from, through, metricName, clock, clock2, fail, fetchFail, cacheFail) ==
    /\ call.pc = "idle"
    /\ LET r == [NoRes EXCEPT !.userID = userID, !.from = from, !.through = through,
                              !.metricName = metricName, !.now = clock]
           v == validateQueryTimeRange(cfg, from, through, clock, clock2)
           found == lookupChunksByMetricName(index, userID, v.from, v.through, <<>>,
                                             metricName, IF fail THEN {0} ELSE {}, <<>>)
           filtered == filterChunksByUniqueFingerprint(
                           filterChunksByTime(v.from, v.through, found.chunks))
           keys == keysFromChunks(filtered)
           got == FetchChunks(cache, chunks, keys, fetchFail, cacheFail)
           r1 == [r EXCEPT !.schema = {<<v.from, v.through>>}, !.indexRead = TRUE,
                           !.cands = found.cands]
           r2 == [r1 EXCEPT !.filterRange = <<v.from, v.through>>,
                            !.fetchCalled = TRUE, !.fetched = keys]
           c == [Idle EXCEPT !.op = "LabelNamesForMetricName"]
       IN  IF v.err # Nil
           THEN call' = Done([c EXCEPT !.res = r], v.err) /\ UNCHANGED cache
           ELSE IF v.shortcut
           THEN call' = Done([c EXCEPT !.res = [r EXCEPT !.shortcut = TRUE]], Nil)
                /\ UNCHANGED cache
           ELSE IF found.err # Nil
           THEN call' = Done([c EXCEPT !.res = r1], found.err) /\ UNCHANGED cache
           ELSE IF got.err # Nil
           THEN call' = Done([c EXCEPT !.res = r2], got.err) /\ UNCHANGED cache
           ELSE /\ call' = Done([c EXCEPT !.res =
                                   [r2 EXCEPT !.chunks = got.chunks,
                                              !.strings = labelNamesFromChunks(got.chunks)]],
                                Nil)
                /\ cache' = got.cache
    /\ UNCHANGED <<index, chunks, cfg, nCalls, written>>
    /\ UNCHANGED outsideStore

\* The chunks a caller may name in DeleteChunk: those it put and those the
\* store holds.
Known == BaseChunks \cup chunks

\* The caller takes the result of the call.
Return ==
    /\ call.pc = "done"
    /\ call' = Idle
    /\ UNCHANGED <<index, chunks, cache, cfg, nCalls, written>>
    /\ UNCHANGED outsideStore

Next ==
    \/ \E c \in BaseChunks : Put(<<c>>)
    \/ \E c1 \in BaseChunks : \E c2 \in BaseChunks \ {c1} : Put(<<c1, c2>>)
    \/ \E fail \in BOOLEAN : PutOnePutChunks(fail)
    \/ \E fail \in BOOLEAN : PutOneWriteBackCache(fail)
    \/ \E fail \in BOOLEAN : PutOneBatchWrite(fail)
    \/ \E c \in Known, partial \in Intervals \cup {NoPartial} :
          DeleteChunk(c.From, c.Through, c.UserID, ExternalKey(c), c.Metric, partial)
    \/ \E fetchFail, cacheFail \in BOOLEAN : reboundChunk(fetchFail, cacheFail)
    \/ \E fail \in BOOLEAN : deleteChunkIndex(fail)
    \/ \E fail \in BOOLEAN : deleteChunkPayload(fail)
    \/ Return

Spec == Init /\ [][Next]_vars

(***************************************************************************)
(* The store with a caller that repeats its deletes: the puts run without  *)
(* storage faults, the deletes with every fault.                           *)
(***************************************************************************)
NextAgain ==
    \/ \E c \in BaseChunks : Put(<<c>>)
    \/ PutOnePutChunks(FALSE)
    \/ PutOneWriteBackCache(FALSE)
    \/ PutOneBatchWrite(FALSE)
    \/ \E c \in Known, partial \in Intervals \cup {NoPartial} :
          DeleteChunk(c.From, c.Through, c.UserID, ExternalKey(c), c.Metric, partial)
    \/ DeleteChunkAgain
    \/ \E fetchFail, cacheFail \in BOOLEAN : reboundChunk(fetchFail, cacheFail)
    \/ \E fail \in BOOLEAN : deleteChunkIndex(fail)
    \/ \E fail \in BOOLEAN : deleteChunkPayload(fail)
    \/ Return

SpecAgain == Init /\ [][NextAgain]_vars

(***************************************************************************)
(* The store with two goroutines that call Put and DeleteChunk at the same *)
(* time.  The store takes no lock over a call (lines 528-547 and 922-962), *)
(* so the goroutines interleave at every storage call.                     *)
(***************************************************************************)
\* The Go scheduler lets the other goroutine run.
Switch ==
    /\ call' = peer
    /\ peer' = call
    /\ call # peer
    /\ UNCHANGED <<index, chunks, cache, cfg, nCalls, written>>
    /\ UNCHANGED <<userStoreVars, syncVars, scanVars, fanVars>>

NextConc ==
    \/ \E c \in BaseChunks : Put(<<c>>)
    \/ \E fail \in BOOLEAN : PutOnePutChunks(fail)
    \/ \E fail \in BOOLEAN : PutOneWriteBackCache(fail)
    \/ \E fail \in BOOLEAN : PutOneBatchWrite(fail)
    \/ \E c \in Known, partial \in Intervals \cup {NoPartial} :
          DeleteChunk(c.From, c.Through, c.UserID, ExternalKey(c), c.Metric, partial)
    \/ \E fetchFail, cacheFail \in BOOLEAN : reboundChunk(fetchFail, cacheFail)
    \/ \E fail \in BOOLEAN : deleteChunkIndex(fail)
    \/ \E fail \in BOOLEAN : deleteChunkPayload(fail)
    \/ Return
    \/ Switch

SpecConc == Init /\ [][NextConc]_vars

(***************************************************************************)
(* The store under queries: the calls that write run without storage       *)
(* faults, the read calls take every range, clock reading and matcher list *)
(* of the sets below.                                                      *)
(***************************************************************************)
Matcher(type, name, value) == [Type |-> type, Name |-> name, Value |-> value]

\* The matcher lists of the queries.
MatcherLists ==
    { <<>>,
      <<Matcher("=", MetricName, "m")>>,
      <<Matcher("=", "job", "a")>>,
      <<Matcher("!=", MetricName, "x"), Matcher("=", "job", "a")>>,
      <<Matcher("=", MetricName, "m"), Matcher("=", "job", "a")>>,
      <<Matcher("=", MetricName, "m"), Matcher("=", "job", "b")>>,
      <<Matcher("=", MetricName, "m"), Matcher("!=", "job", "a")>>,
      <<Matcher("=", MetricName, "m"), Matcher("=", "job", "")>>,
      <<Matcher("=~", "job", ".+"), Matcher("=", MetricName, "m"), Matcher("=", "job", "a")>>,
      <<Matcher("=", MetricName, "m"), Matcher("=", "job", "a"), Matcher("=", "job", "b")>> }

\* The configurations of the store.
Configs ==
    { DefaultCfg,
      [MaxQueryLength |-> 3, MaxLookBackPeriod |-> 0, MaxChunksPerQuery |-> 1],
      [MaxQueryLength |-> 0, MaxLookBackPeriod |-> 2, MaxChunksPerQuery |-> 0] }

\* The readings of model.Now().
Clock == {MaxTime - FiveMinutes - 1}

\* The second reading of the clock: it is read only when a look-back
\* period is set.
Clock2(clock) == IF cfg.MaxLookBackPeriod = 0 THEN {clock} ELSE {clock, clock + 1}

\* The faults of one read call: none, the index reads of some matcher tasks
\* (0: the lookup without matchers), or the fetch of the chunks.
ReadFaults(allMatchers) ==
    LET n == Len(Indexable(allMatchers))
        tasks == IF n = 0 THEN {0} ELSE 1..n
    IN  {[failing |-> f, fetch |-> FALSE] : f \in SUBSET tasks}
        \cup {[failing |-> {}, fetch |-> TRUE]}

\* The chunks put under queries: those with a metric name.
NamedChunks == {c \in BaseChunks : LabelGet(c.Metric, MetricName) # ""}

InitGet ==
    /\ index = {}
    /\ chunks = {}
    /\ cache = {}
    /\ cfg \in Configs
    /\ call = Idle
    /\ nCalls = 0
    /\ written = {}
    /\ NewUserStore(DefaultBucketStoreCfg, <<>>)
    /\ NoScan
    /\ NoFan
    /\ NoPeer

NextGet ==
    \/ \E c \in NamedChunks : Put(<<c>>)
    \/ PutOnePutChunks(FALSE)
    \/ \E fail \in BOOLEAN : PutOneWriteBackCache(fail)
    \/ PutOneBatchWrite(FALSE)
    \/ \E c \in Known :
          DeleteChunk(c.From, c.Through, c.UserID, ExternalKey(c), c.Metric, NoPartial)
    \/ deleteChunkIndex(FALSE)
    \/ deleteChunkPayload(FALSE)
    \/ /\ call.pc = "idle"
       /\ \E from, through \in Time, ms \in MatcherLists, clock \in Clock :
         \E clock2 \in Clock2(clock), fault \in ReadFaults(ms),
            order \in Orders(Len(Indexable(ms))), cacheFail \in BOOLEAN :
            Get("u1", from, through, ms, clock, clock2, fault.failing, order,
                fault.fetch, cacheFail)
    \/ /\ call.pc = "idle"
       /\ \E from, through \in Time, clock \in Clock, labelName \in {"job"} :
         \E clock2 \in Clock2(clock), fail \in BOOLEAN :
            LabelValuesForMetricName("u1", from, through, "m", labelName, clock, clock2, fail)
    \/ /\ call.pc = "idle"
       /\ \E from, through \in Time, clock \in Clock :
         \E clock2 \in Clock2(clock), fault \in ReadFaults(<<>>), cacheFail \in BOOLEAN :
            LabelNamesForMetricName("u1", from, through, "m", clock, clock2,
                                    fault.failing # {}, fault.fetch, cacheFail)
    \/ Return

SpecGet == InitGet /\ [][NextGet]_vars

(***************************************************************************)
(* validateQueryTimeRange on its own, on every range, clock reading and    *)
(* limit of the sets below.                                                *)
(***************************************************************************)
\* The limits of the length of a query and of the look-back.
RangeConfigs ==
    {[MaxQueryLength |-> ql, MaxLookBackPeriod |-> lb, MaxChunksPerQuery |-> 0] :
        ql \in {0, 3}, lb \in 0..2}

\* store.validateQueryTimeRange, lines 665-701, called with pointers to
\* from and through: validated holds what it leaves in them.
validateQueryTimeRangeCall(from, through, clock, clock2) ==
    /\ call.pc = "idle"
    /\ LET v == validateQueryTimeRange(cfg, from, through, clock, clock2)
           r == [NoRes EXCEPT !.from = from, !.through = through, !.now = clock,
                              !.shortcut = v.shortcut, !.validated = <<v.from, v.through>>]
       IN  call' = Done([Idle EXCEPT !.op = "validateQueryTimeRange", !.res = r], v.err)
    /\ UNCHANGED <<index, chunks, cache, cfg, nCalls, written>>
    /\ UNCHANGED outsideStore

InitRange ==
    /\ index = {}
    /\ chunks = {}
    /\ cache = {}
    /\ cfg \in RangeConfigs
    /\ call = Idle
    /\ nCalls = 0
    /\ written = {}
    /\ NewUserStore(DefaultBucketStoreCfg, <<>>)
    /\ NoScan
    /\ NoFan
    /\ NoPeer

NextRange ==
    \/ \E from, through, clock \in Time :
         \E clock2 \in Clock2(clock) : validateQueryTimeRangeCall(from, through, clock, clock2)
    \/ Return

SpecRange == InitRange /\ [][NextRange]_vars

(***************************************************************************)
(* calculateIndexEntries on its own: the loop of lines 564-572 run on the  *)
(* lists of entries a schema may return.                                   *)
(***************************************************************************)
\* Length of the entry lists a schema returns.
MaxEntries == 3

\* The entries a schema returns: rows of one chunk under a few hash values,
\* label values and values.
SchemaEntries ==
    {[TableName |-> TableFor(0), HashValue |-> h, RangeValue |-> <<v, <<"u1", 1, 1, 4, 22>>>>,
      Value |-> x] :
        h \in {<<"u1", "0", "m">>, <<"u1", "0", "m", "job">>}, v \in {"", "a"},
        x \in {"", "v"}}

EntryLists == UNION {[1..n -> SchemaEntries] : n \in 0..MaxEntries}

InitDedup ==
    /\ index = {}
    /\ chunks = {}
    /\ cache = {}
    /\ cfg = DefaultCfg
    /\ call \in {[op |-> "calculateIndexEntries", pc |-> "entries", entries |-> es,
                  batch |-> <<>>] : es \in EntryLists}
    /\ nCalls = 0
    /\ written = {}
    /\ NewUserStore(DefaultBucketStoreCfg, <<>>)
    /\ NoScan
    /\ NoFan
    /\ NoPeer

\* calculateIndexEntries, lines 564-573, on the entries of the schema.
calculateIndexEntriesLoop ==
    /\ call.pc = "entries"
    /\ call' = [call EXCEPT !.pc = "done", !.batch = DedupEntries(call.entries, {})]
    /\ UNCHANGED <<index, chunks, cache, cfg, nCalls, written>>
    /\ UNCHANGED outsideStore

NextDedup == calculateIndexEntriesLoop

SpecDedup == InitDedup /\ [][NextDedup]_vars

(***************************************************************************)
(* The matcher fan-out of lookupChunksByMetricName: one goroutine per      *)
(* matcher, which sends its chunk ids or its error on an unbuffered        *)
(* channel, and the coordinator, which receives len(matchers) messages.    *)
(* The queries run on the index of a store that holds the chunks with a    *)
(* metric name.                                                            *)
(***************************************************************************)
\* The index after PutOne of the chunks of a list.
RECURSIVE IndexAfterPut(_, _)
IndexAfterPut(idx, cs) ==
    IF cs = <<>> THEN idx
    ELSE IndexAfterPut(
             ApplyBatch(idx, calculateIndexEntries(Head(cs).UserID, Head(cs).From,
                                                   Head(cs).Through, Head(cs)).batch),
             Tail(cs))

\* The matcher lists that reach the fan-out: the indexable matchers of the
\* queries, when there are any.
FanMatcherLists ==
    ({Indexable(ml) : ml \in MatcherLists} \ {<<>>})
    \cup { <<Matcher("=", "job", "c"), Matcher("=", "job", "a")>>,
           <<Matcher("=", "job", "a"), Matcher("=", "job", "b"), Matcher("=~", "job", ".+")>> }

\* Lines 786-823: the channels are made and one goroutine per matcher is
\* started; the query is for metric m of user u1 over all of time.
lookupChunksByMetricNameFanOut(matchers) ==
    /\ fan.pc = "idle"
    /\ fan.n < MaxQueries
    /\ fan' = [fan EXCEPT !.pc = "select", !.matchers = matchers, !.i = 0,
                          !.chunkIDs = <<>>, !.isNil = TRUE, !.lastErr = Nil,
                          !.late = 0, !.n = @ + 1, !.arrived = <<>>]
    /\ matcherTasks' = [k \in 1..Len(matchers) |->
                            [pc |-> "lookup", err |-> Nil, chunkIDs |-> <<>>, sent |-> 0]]
    /\ ctxDone' = FALSE
    /\ UNCHANGED outsideFan

\* The context of the query is cancelled.
cancel ==
    /\ fan.pc = "select"
    /\ ~ctxDone
    /\ ctxDone' = TRUE
    /\ UNCHANGED <<fan, matcherTasks, outsideFan>>

\* Lines 789-821: the goroutine of matcher k up to its send: the read
\* queries, the index lookup, which may fail (and fails with the error of
\* the context when the client notices that the context is done), and
\* parseIndexEntries.
matcherTask(k, fault) ==
    /\ k \in DOMAIN matcherTasks
    /\ matcherTasks[k].pc = "lookup"
    /\ fault = "context canceled" => ctxDone
    /\ LET q == matcherQueries(0, MaxTime, "u1", "m", fan.matchers[k])
       IN  matcherTasks' = [matcherTasks EXCEPT ![k] =
               IF fault # Nil
               THEN [pc |-> "send", err |-> fault, chunkIDs |-> <<>>, sent |-> 0]
               ELSE [pc |-> "send", err |-> Nil,
                     chunkIDs |-> parseIndexEntries(lookupEntriesByQueries(index, q),
                                                    fan.matchers[k]),
                     sent |-> 0]]
    /\ UNCHANGED <<fan, ctxDone, outsideFan>>

\* A select with a case for ctx.Done() that leaves the loop.
selectCtxDone(done) == done

\* Lines 827-837: the select of the coordinator has the two channels of the
\* goroutines as its cases and no case for ctx.Done().
selectCtx(done) == FALSE

\* Lines 826-837: the coordinator receives the message goroutine k sends,
\* which ends the goroutine.
selectReceive(k) ==
    /\ fan.pc = "select"
    /\ fan.i < Len(fan.matchers)
    /\ ~selectCtx(ctxDone)
    /\ k \in DOMAIN matcherTasks
    /\ matcherTasks[k].pc = "send"
    /\ LET acc == receive(<<[err |-> matcherTasks[k].err, chunkIDs |-> matcherTasks[k].chunkIDs]>>,
                          [isNil |-> fan.isNil, chunkIDs |-> fan.chunkIDs,
                           lastErr |-> fan.lastErr])
       IN  fan' = [fan EXCEPT !.i = @ + 1, !.isNil = acc.isNil, !.chunkIDs = acc.chunkIDs,
                              !.lastErr = acc.lastErr,
                              !.late = IF ctxDone THEN @ + 1 ELSE @,
                              !.arrived = Append(@, k)]
    /\ matcherTasks' = [matcherTasks EXCEPT ![k].pc = "exit", ![k].sent = @ + 1]
    /\ UNCHANGED <<ctxDone, outsideFan>>

\* Lines 826 and 838-845: the loop is over and lookupChunksByMetricName
\* returns the last error or the chunks of the ids.
selectDone ==
    /\ fan.pc = "select"
    /\ fan.i >= Len(fan.matchers) \/ selectCtx(ctxDone)
    /\ fan' = [fan EXCEPT !.pc = "return"]
    /\ UNCHANGED <<matcherTasks, ctxDone, outsideFan>>

\* The caller takes the result.
fanReturn ==
    /\ fan.pc = "return"
    /\ fan' = [fan EXCEPT !.pc = "idle"]
    /\ UNCHANGED <<matcherTasks, ctxDone, outsideFan>>

InitFan ==
    /\ index = IndexAfterPut({}, SetToSeq(NamedChunks))
    /\ chunks = NamedChunks
    /\ cache = {}
    /\ cfg = DefaultCfg
    /\ call = Idle
    /\ nCalls = 0
    /\ written = NamedChunks
    /\ NewUserStore(DefaultBucketStoreCfg, <<>>)
    /\ NoScan
    /\ NoFan
    /\ NoPeer

\* The steps of the coordinator.
CoordinatorSteps ==
    \/ \E matchers \in FanMatcherLists : lookupChunksByMetricNameFanOut(matchers)
    \/ \E k \in 1..MaxMatchers : selectReceive(k)
    \/ selectDone
    \/ fanReturn

\* The steps of the goroutine of matcher k.
TaskSteps(k) ==
    \E fault \in {Nil, "index read failed", "context canceled"} : matcherTask(k, fault)

NextFan ==
    \/ CoordinatorSteps
    \/ \E k \in 1..MaxMatchers : TaskSteps(k)
    \/ cancel

\* The Go scheduler runs every goroutine that can take a step; the context
\* may or may not be cancelled.
SpecFan ==
    /\ InitFan
    /\ [][NextFan]_vars
    /\ WF_vars(CoordinatorSteps)
    /\ \A k \in 1..MaxMatchers : WF_vars(TaskSteps(k))

(***************************************************************************)
(* UserStore: getStore, getOrCreateStore and the RPCs Info, Series,        *)
(* LabelNames and LabelValues, run by goroutines that interleave at the    *)
(* operations of storesMu.                                                 *)
(***************************************************************************)
RPCs == {"Info", "Series", "LabelNames", "LabelValues"}

\* The metadata of the requests: none, without a user field, and with the
\* user field of each user id.
Metadata ==
    {NoMetadata, [ok |-> TRUE, user |-> <<>>]} \cup {[ok |-> TRUE, user |-> <<u>>] : u \in Users}

\* The call of goroutine p is over; its result stays until p takes it.
ProcDone(r, bs, resp, err) ==
    [r EXCEPT !.pc = "done", !.bs = bs, !.resp = resp, !.err = err]

\* Info, Series, LabelNames and LabelValues up to getStore (lines 249-260):
\* the metadata and its user field are required.
RPC(p, op, md) ==
    /\ procs[p].pc = "idle"
    /\ LET r == [IdleProc EXCEPT !.op = op, !.md = md]
       IN  procs' = [procs EXCEPT ![p] =
               IF ~md.ok THEN ProcDone(r, NoStore, Nil, "no metadata")
               ELSE IF Len(md.user) = 0 THEN ProcDone(r, NoStore, Nil, "no userID")
               ELSE [r EXCEPT !.pc = "getStore", !.user = md.user[1],
                              !.seen = stores[md.user[1]]]]
    /\ UNCHANGED <<stores, storesMu, built, touched, syncVars, outsideUserStore>>

\* A caller enters getStore, line 336.
getStore(p, userID) ==
    /\ procs[p].pc = "idle"
    /\ procs' = [procs EXCEPT ![p] = [IdleProc EXCEPT !.op = "getStore",
                                                     !.pc = "getStore",
                                                     !.user = userID,
                                                     !.seen = stores[userID]]]
    /\ UNCHANGED <<stores, storesMu, built, touched, syncVars, outsideUserStore>>

\* A caller enters getOrCreateStore, line 344.
getOrCreateStore(p, userID) ==
    /\ procs[p].pc = "idle"
    /\ procs' = [procs EXCEPT ![p] = [IdleProc EXCEPT !.op = "getOrCreateStore",
                                                     !.pc = "getStore",
                                                     !.user = userID,
                                                     !.seen = stores[userID]]]
    /\ UNCHANGED <<stores, storesMu, built, touched, syncVars, outsideUserStore>>

\* getStore, line 337: u.storesMu.RLock().
getStoreRLock(p) ==
    /\ procs[p].pc = "getStore"
    /\ storesMu.writer = Nil
    /\ storesMu' = [storesMu EXCEPT !.readers = @ \cup {p}]
    /\ procs' = [procs EXCEPT ![p].pc = "getStoreRead"]
    /\ UNCHANGED <<stores, built, touched, syncVars, outsideUserStore>>

\* A getStore that hands out the first store the map keeps.
lookupAnyStore(m, userID) ==
    IF \A u \in Users : m[u] = NoStore THEN NoStore
    ELSE m[CHOOSE u \in Users : m[u] # NoStore]

\* getStore, line 338: store := u.stores[userID].
lookupStore(m, userID) == m[userID]

\* An RPC that calls whatever getStore returned.
neverNoStore(bs) == FALSE

\* Lines 262-264 (and 285, 308, 331): store == nil.
noStore(bs) == bs = NoStore

\* getStore, lines 338-341: read the map, RUnlock and return; the caller
\* goes on: getOrCreateStore returns a store that exists (lines 347-349), an
\* RPC returns an empty response when there is none (lines 262-264).
getStoreRead(p) ==
    /\ procs[p].pc = "getStoreRead"
    /\ storesMu' = [storesMu EXCEPT !.readers = @ \ {p}]
    /\ LET r  == procs[p]
           bs == lookupStore(stores, r.user)
       IN  procs' = [procs EXCEPT ![p] =
               IF r.op = "getStore" THEN ProcDone(r, bs, Nil, Nil)
               ELSE IF r.op = "getOrCreateStore"
               THEN IF bs # NoStore THEN ProcDone(r, bs, Nil, Nil)
                    ELSE [r EXCEPT !.pc = "Lock"]
               ELSE IF noStore(bs) THEN ProcDone(r, bs, Nil, Nil)
               ELSE [r EXCEPT !.pc = "call", !.bs = bs]]
    /\ UNCHANGED <<stores, built, touched, syncVars, outsideUserStore>>

\* Lines 265, 288, 311 and 334: the call of the BucketStore, whose response
\* or error the RPC returns.
BucketStoreCall(p, fail) ==
    /\ procs[p].pc = "call"
    /\ LET r == [procs[p] EXCEPT !.invoked = TRUE]
       IN  /\ touched' = touched \cup {<<r.md.user[1], r.bs>>}
           /\ procs' = [procs EXCEPT ![p] =
                  IF fail THEN ProcDone(r, r.bs, Nil, "store error")
                  ELSE ProcDone(r, r.bs, "response", Nil)]
    /\ UNCHANGED <<stores, storesMu, built, syncVars, outsideUserStore>>

\* getOrCreateStore, line 351: u.storesMu.Lock().
getOrCreateStoreLock(p) ==
    /\ procs[p].pc = "Lock"
    /\ storesMu = Unlocked
    /\ storesMu' = [storesMu EXCEPT !.writer = p]
    /\ procs' = [procs EXCEPT ![p].pc = "locked"]
    /\ UNCHANGED <<stores, built, touched, syncVars, outsideUserStore>>

\* A getOrCreateStore that does not look again under the lock.
recheckNothing(m, userID) == NoStore

\* getOrCreateStore, line 355: bs = u.stores[userID] under the lock.
recheck(m, userID) == m[userID]

\* What may fail while a BucketStore is built.
BuildFaults == {Nil, "NewMetaFetcher failed", "NewBucketStore failed"}

\* getOrCreateStore, lines 354-406, under the write lock, with the deferred
\* Unlock: return the store created in between, or build one and keep it.
getOrCreateStoreLocked(p, fault) ==
    /\ procs[p].pc = "locked"
    /\ storesMu' = Unlocked
    /\ LET r  == procs[p]
           bs == recheck(stores, r.user)
       IN  IF bs # NoStore
           THEN /\ procs' = [procs EXCEPT ![p] = ProcDone(r, bs, Nil, Nil)]
                /\ UNCHANGED <<stores, built>>
           ELSE IF fault # Nil
           THEN /\ procs' = [procs EXCEPT ![p] = ProcDone(r, NoStore, Nil, fault)]
                /\ UNCHANGED <<stores, built>>
           ELSE /\ built' = Append(built, r.user)
                /\ stores' = [stores EXCEPT ![r.user] = Len(built) + 1]
                /\ procs' = [procs EXCEPT ![p] = ProcDone(r, Len(built) + 1, Nil, Nil)]
    /\ UNCHANGED <<touched, syncVars, outsideUserStore>>

\* The caller takes the result.
ProcReturn(p) ==
    /\ procs[p].pc = "done"
    /\ procs' = [procs EXCEPT ![p] = IdleProc]
    /\ UNCHANGED <<stores, storesMu, built, touched, syncVars, outsideUserStore>>

\* The goroutines of the callers.
Callers == Procs \ {ServiceProc}

InitStores ==
    /\ EmptyStore
    /\ NewUserStore(DefaultBucketStoreCfg, <<>>)
    /\ NoScan
    /\ NoFan
    /\ NoPeer

NextStores ==
    \/ \E p \in Callers, op \in RPCs, md \in Metadata : RPC(p, op, md)
    \/ \E p \in Callers, u \in Users : getStore(p, u)
    \/ \E p \in Callers, u \in Users : getOrCreateStore(p, u)
    \/ \E p \in Callers : getStoreRLock(p)
    \/ \E p \in Callers : getStoreRead(p)
    \/ \E p \in Callers, fail \in BOOLEAN : BucketStoreCall(p, fail)
    \/ \E p \in Callers : getOrCreateStoreLock(p)
    \/ \E p \in Callers, fault \in BuildFaults : getOrCreateStoreLocked(p, fault)
    \/ \E p \in Callers : ProcReturn(p)

SpecStores == InitStores /\ [][NextStores]_vars

(***************************************************************************)
(* UserStore: the service (starting, syncStoresLoop) and syncUserStores    *)
(* with its pool of workers.  The service goroutine lists the bucket and   *)
(* calls getOrCreateStore, the workers run the sync function.              *)
(***************************************************************************)
\* strings.TrimSuffix on a name kept as a sequence of segments.
TrimSuffix(s, suffix) ==
    IF Len(s) > 0 /\ s[Len(s)] = suffix THEN SubSeq(s, 1, Len(s) - 1) ELSE s

\* The configurations of the querier.
BucketStoreCfgs ==
    {[SyncInterval |-> si, TenantSyncConcurrency |-> c] :
        si \in {-1, 0, 1}, c \in 0..MaxWorkers}

\* What Bucket.Iter lists at the root of the bucket: the tenant prefixes.
Listings ==
    { <<>>, <<<<"a", "/">>>>, <<<<"a", "/">>, <<"b", "/">>>>, <<<<"b", "/">>, <<"a", "/">>>> }

\* services.Service: StartAsync moves the new service to Starting and runs
\* starting on the service goroutine.
StartAsync ==
    /\ svc.state = "New"
    /\ svc' = [svc EXCEPT !.state = "Starting", !.pc = "Listen"]
    /\ UNCHANGED <<sync, workers, ran, userStoreVars, outsideUserStore>>

\* services.Service: a starting function that returns an error fails the
\* service, which never runs.
Failed(s, err) == [s EXCEPT !.state = "Failed", !.pc = "end", !.err = err]

\* services.Service: starting returned nil and the running function starts.
Running(s) == [s EXCEPT !.state = "Running", !.pc = "loop"]

\* A starting that returns nil whatever came up.
startingReturnsNil(s, err) == Running([s EXCEPT !.fault = err])

\* starting, lines 96-98, 108-110 and 116-121: the error is returned, or
\* nil when there is none.
startingReturns(s, err) ==
    IF err # Nil THEN Failed([s EXCEPT !.fault = err], err) ELSE Running(s)

\* starting, lines 93-99: net.Listen.
Listen(fail) ==
    /\ svc.pc = "Listen"
    /\ svc' = IF fail THEN startingReturns(svc, "listen failed")
              ELSE [svc EXCEPT !.pc = "Dial"]
    /\ UNCHANGED <<sync, workers, ran, userStoreVars, outsideUserStore>>

\* A pool with one worker more than configured.
poolSizePlusOne(c) == c.TenantSyncConcurrency + 1

\* Line 205: the loop that starts the workers runs TenantSyncConcurrency
\* times.
poolSize(c) == c.TenantSyncConcurrency

\* syncUserStores, lines 191-217: the workers are started and the listing
\* of the bucket begins.
syncUserStoresBegin(f) ==
    /\ sync' = [NoSync EXCEPT !.pc = "Iter", !.f = f, !.i = 1, !.n = sync.n + 1]
    /\ workers' = [w \in 1..poolSize(svc.cfg) |->
                      [pc |-> "range", job |-> NoJob]]

\* starting, lines 107-121: grpc.Dial, then the initial sync when
\* SyncInterval > 0.
Dial(fail) ==
    /\ svc.pc = "Dial"
    /\ IF fail
       THEN svc' = startingReturns(svc, "dial failed") /\ UNCHANGED <<sync, workers>>
       ELSE IF svc.cfg.SyncInterval > 0
       THEN svc' = [svc EXCEPT !.pc = "initialSync"] /\ syncUserStoresBegin("InitialSync")
       ELSE svc' = startingReturns(svc, Nil) /\ UNCHANGED <<sync, workers>>
    /\ UNCHANGED <<ran, userStoreVars, outsideUserStore>>

\* syncUserStores, lines 221-225: Bucket.Iter hands the next name to the
\* callback, which calls getOrCreateStore for the user; the listing may
\* fail, and it ends after the last name.
Iter(fail) ==
    /\ sync.pc = "Iter"
    /\ IF fail
       THEN sync' = [sync EXCEPT !.pc = "close", !.err = "Iter failed"] /\ UNCHANGED procs
       ELSE IF sync.i > Len(svc.bucket)
       THEN sync' = [sync EXCEPT !.pc = "close"] /\ UNCHANGED procs
       ELSE LET user == TrimSuffix(svc.bucket[sync.i], "/")
            IN  /\ sync' = [sync EXCEPT !.pc = "getOrCreateStore"]
                /\ procs' = [procs EXCEPT ![ServiceProc] =
                       [IdleProc EXCEPT !.op = "getOrCreateStore", !.pc = "getStore",
                                        !.user = user, !.seen = stores[user]]]
    /\ UNCHANGED <<svc, workers, ran, stores, storesMu, built, touched, outsideUserStore>>

\* syncUserStores, lines 224-227, and Bucket.Iter: the error of
\* getOrCreateStore is returned by the callback and ends the listing.
callbackError(s, err) == [s EXCEPT !.pc = "close", !.err = err]

\* syncUserStores, lines 224-232: getOrCreateStore has returned; the
\* callback is about to send the job.
IterCallback ==
    /\ sync.pc = "getOrCreateStore"
    /\ procs[ServiceProc].pc = "done"
    /\ LET r == procs[ServiceProc]
       IN  sync' = IF r.err # Nil THEN callbackError(sync, r.err)
                   ELSE [sync EXCEPT !.pc = "send",
                                     !.job = [userID |-> r.user, store |-> r.bs]]
    /\ procs' = [procs EXCEPT ![ServiceProc] = IdleProc]
    /\ UNCHANGED <<svc, workers, ran, stores, storesMu, built, touched, outsideUserStore>>

\* Lines 211 and 229: the send on jobs meets the receive of a worker.
SendJob(w) ==
    /\ sync.pc = "send"
    /\ workers[w].pc = "range"
    /\ workers' = [workers EXCEPT ![w] = [pc |-> "f", job |-> sync.job]]
    /\ sync' = [sync EXCEPT !.pc = "Iter", !.i = @ + 1, !.job = NoJob,
                            !.sent = Append(@, sync.job.userID)]
    /\ UNCHANGED <<svc, ran, userStoreVars, outsideUserStore>>

\* Lines 212-214: the worker runs f on the store of the job; an error is
\* logged.
WorkerRun(w, fail) ==
    /\ workers[w].pc = "f"
    /\ ran' = ran \cup {[n |-> sync.n, f |-> sync.f, userID |-> workers[w].job.userID,
                         store |-> workers[w].job.store,
                         err |-> IF fail THEN "sync failed" ELSE Nil]}
    /\ workers' = [workers EXCEPT ![w] = [pc |-> "range", job |-> NoJob]]
    /\ sync' = [sync EXCEPT !.processed = Append(@, <<w, workers[w].job.userID>>)]
    /\ UNCHANGED <<svc, userStoreVars, outsideUserStore>>

\* Line 238: close(jobs).
CloseJobs ==
    /\ sync.pc = "close"
    /\ sync' = [sync EXCEPT !.pc = "Wait", !.closed = TRUE]
    /\ UNCHANGED <<svc, workers, ran, userStoreVars, outsideUserStore>>

\* Lines 209-211: the range over the closed channel ends and the worker
\* is done.
WorkerExit(w) ==
    /\ workers[w].pc = "range"
    /\ sync.closed
    /\ workers' = [workers EXCEPT ![w].pc = "Done"]
    /\ UNCHANGED <<svc, sync, ran, userStoreVars, outsideUserStore>>

\* A Wait that returns at once.
noWait(ws) == TRUE

\* Lines 207-209 and 239: wg.Wait returns when every worker has called
\* wg.Done.
Wait(ws) == \A w \in DOMAIN ws : ws[w].pc = "Done"

\* Lines 239-241: wg.Wait, and syncUserStores returns the error of the
\* listing to initialSync (lines 132-140 and 117-119) or to syncStores
\* (lines 164-168), which logs it.
syncUserStoresReturn ==
    /\ sync.pc = "Wait"
    /\ Wait(workers)
    /\ sync' = [sync EXCEPT !.pc = "idle"]
    /\ svc' = IF svc.pc = "initialSync"
              THEN startingReturns(svc, sync.err)
              ELSE [svc EXCEPT !.pc = "loop",
                               !.warned = IF sync.err # Nil THEN @ + 1 ELSE @]
    /\ UNCHANGED <<workers, ran, userStoreVars, outsideUserStore>>

\* Time passes while syncStoresLoop waits in a select with a timer.
Tick ==
    /\ svc.state = "Running"
    /\ svc.pc = "loop"
    /\ svc.cfg.SyncInterval > 0
    /\ svc.elapsed < svc.cfg.SyncInterval
    /\ svc' = [svc EXCEPT !.elapsed = @ + 1]
    /\ UNCHANGED <<sync, workers, ran, userStoreVars, outsideUserStore>>

\* A loop that does not wait before its first sync.
afterNothing(s) == TRUE

\* Lines 155-159: time.After(syncInterval) has fired.
afterInterval(s) == s.elapsed >= s.cfg.SyncInterval

\* runutil.Repeat: the ticker of the interval has fired.
tickC(s) == s.elapsed >= s.cfg.SyncInterval

\* syncStoresLoop, lines 147-168: with SyncInterval > 0, after the first
\* interval runutil.Repeat runs syncStores, and again at every tick; the
\* error of a round is logged (warned counts these) and nil is returned to
\* Repeat.
syncStores ==
    /\ svc.state = "Running"
    /\ svc.pc = "loop"
    /\ svc.cfg.SyncInterval > 0
    /\ IF svc.rounds = 0 THEN afterInterval(svc) ELSE tickC(svc)
    /\ sync.n < MaxSyncs
    /\ svc' = [svc EXCEPT !.pc = "syncStores", !.elapsed = 0, !.rounds = @ + 1]
    /\ syncUserStoresBegin("SyncBlocks")
    /\ ran' = {r \in ran : r.f = "InitialSync"}
    /\ UNCHANGED <<userStoreVars, outsideUserStore>>

\* syncStoresLoop, lines 147-150 and 155-158: the context is done and the
\* service stops.
Stop ==
    /\ svc.state = "Running"
    /\ svc.pc = "loop"
    /\ svc' = [svc EXCEPT !.state = "Terminated", !.pc = "end"]
    /\ UNCHANGED <<sync, workers, ran, userStoreVars, outsideUserStore>>

InitSync ==
    /\ EmptyStore
    /\ \E c \in BucketStoreCfgs, l \in Listings : NewUserStore(c, l)
    /\ NoScan
    /\ NoFan
    /\ NoPeer

\* The steps of the service goroutine.
ServiceSteps ==
    \/ StartAsync
    \/ \E fail \in BOOLEAN : Listen(fail)
    \/ \E fail \in BOOLEAN : Dial(fail)
    \/ \E fail \in BOOLEAN : Iter(fail)
    \/ getStoreRLock(ServiceProc)
    \/ getStoreRead(ServiceProc)
    \/ getOrCreateStoreLock(ServiceProc)
    \/ \E fault \in BuildFaults : getOrCreateStoreLocked(ServiceProc, fault)
    \/ IterCallback
    \/ \E w \in 1..MaxWorkers : w \in DOMAIN workers /\ SendJob(w)
    \/ CloseJobs
    \/ syncUserStoresReturn
    \/ Tick
    \/ syncStores
    \/ Stop

\* The steps of worker w.
WorkerSteps(w) ==
    \/ \E fail \in BOOLEAN : WorkerRun(w, fail)
    \/ WorkerExit(w)

NextSync ==
    \/ ServiceSteps
    \/ \E w \in 1..MaxWorkers : w \in DOMAIN workers /\ WorkerSteps(w)

\* The Go scheduler runs every goroutine that can take a step.
SpecSync ==
    /\ InitSync
    /\ [][NextSync]_vars
    /\ WF_vars(ServiceSteps)
    /\ \A w \in 1..MaxWorkers : WF_vars(w \in DOMAIN workers /\ WorkerSteps(w))

(***************************************************************************)
(* The table scanner: main, and handlePage of the handlers of the          *)
(* segments.  Scan delivers the pages of a segment to the handler of the   *)
(* segment, one page at a time; the handlers of different segments run     *)
(* side by side, row by row.                                               *)
(***************************************************************************)
\* chunk.OrgFromHash: the tenant id at the head of the hash value.
OrgFromHash(hashValue) == Atoi(hashValue[1])

\* The rows of the table: the hash value, and what decoding the value and
\* indexing the chunk come to.
Rows ==
    {[hashValue |-> <<str, "m">>, decodeErr |-> d, indexErr |-> x] :
        str \in {"-1", "0", "3", "8"},
        d \in {Nil, "chunk decode error"}, x \in {Nil, "indexing error"}}

\* h.counts[org]++ on a Go map.
Inc(counts, org) ==
    IF org \in DOMAIN counts THEN [counts EXCEPT ![org] = @ + 1]
    ELSE counts @@ (org :> 1)

\* The value a Go map gives for a key.
Count(counts, org) == IF org \in DOMAIN counts THEN counts[org] ELSE 0

\* newSummary, lines 131-135.
newSummary == [counts |-> <<>>]

\* newHandler, lines 160-168.
newHandler == [pc |-> "idle", summary |-> newSummary]

\* The flags of main: segments, the delete set of delete-orgs-file and
\* dynamodb.reindex-prefix.
SegmentCounts == {1, 2}
DeleteSets == {{}, {3}}
ReindexPrefixes == {"", "reindex_"}

\* main, lines 36-113: the flags are parsed and the handlers made.
main(segments, orgs, reindexTablePrefix) ==
    /\ scanner.pc = "flags"
    /\ scanner' = [scanner EXCEPT !.pc = "Scan", !.segments = segments, !.orgs = orgs,
                                  !.reindexTablePrefix = reindexTablePrefix]
    /\ handlers' = [segment \in 1..segments |-> newHandler]
    /\ UNCHANGED <<totals, pageCounter, reindexed, scanned, outsideScan>>

\* handlePage, lines 171-174: Scan calls the handler of the segment with a
\* page, and the page is counted.
handlePage(segment) ==
    /\ scanner.pc = "Scan"
    /\ scanner.pages < MaxPages
    /\ handlers[segment].pc = "idle"
    /\ handlers' = [handlers EXCEPT ![segment].pc = "rows"]
    /\ pageCounter' = pageCounter + 1
    /\ scanner' = [scanner EXCEPT !.pages = @ + 1]
    /\ UNCHANGED <<totals, reindexed, scanned, outsideScan>>

\* A handler that counts the rows it reindexed.
countsReindexed(counts, org, orgs, reindexTablePrefix, row) ==
    IF org <= 0 THEN counts
    ELSE IF org \in orgs THEN counts
    ELSE IF reindexTablePrefix # "" /\ row.decodeErr = Nil /\ row.indexErr = Nil
    THEN Inc(counts, org)
    ELSE counts

\* handlePage, lines 176-181: the rows of tenant ids <= 0 are skipped, every
\* other row is counted before anything else is done with it.
countsAfter(counts, org, orgs, reindexTablePrefix, row) ==
    IF org <= 0 THEN counts ELSE Inc(counts, org)

\* handlePage, lines 182-197: a row of a tenant outside the delete set is
\* decoded and indexed when reindexing is on; errors are logged.
indexChunkCalls(org, orgs, reindexTablePrefix, row) ==
    IF org <= 0 \/ org \in orgs \/ reindexTablePrefix = "" THEN 0
    ELSE IF row.decodeErr # Nil THEN 0
    ELSE IF row.indexErr # Nil THEN 0
    ELSE 1

\* handlePage, lines 175-198: one turn of the loop over the rows of the
\* page.
iteratorNext(segment, row) ==
    /\ handlers[segment].pc = "rows"
    /\ scanner.rows < MaxRows
    /\ LET org == OrgFromHash(row.hashValue)
       IN  /\ handlers' = [handlers EXCEPT ![segment].summary.counts =
                  countsAfter(@, org, scanner.orgs, scanner.reindexTablePrefix, row)]
           /\ reindexed' = reindexed
                  + indexChunkCalls(org, scanner.orgs, scanner.reindexTablePrefix, row)
           /\ scanned' = [scanned EXCEPT ![org] = @ + 1]
    /\ scanner' = [scanner EXCEPT !.rows = @ + 1]
    /\ UNCHANGED <<totals, pageCounter, outsideScan>>

\* handlePage, lines 175 and 199: the page has no more rows.
handlePageReturn(segment) ==
    /\ handlers[segment].pc = "rows"
    /\ handlers' = [handlers EXCEPT ![segment].pc = "idle"]
    /\ UNCHANGED <<scanner, totals, pageCounter, reindexed, scanned, outsideScan>>

\* summary.accumulate, lines 137-141.
accumulate(s, b) ==
    [k \in DOMAIN s \cup DOMAIN b |-> Count(s, k) + Count(b, k)]

\* main, lines 120-123: the summaries of the segments are merged in order.
RECURSIVE accumulateSegments(_, _, _)
accumulateSegments(t, hs, segment) ==
    IF segment > Len(hs) THEN t
    ELSE accumulateSegments(accumulate(t, hs[segment].summary.counts), hs, segment + 1)

\* main, lines 114-124: Scan returns; its error is fatal, otherwise the
\* totals are merged and printed.
ScanReturn(fail) ==
    /\ scanner.pc = "Scan"
    /\ \A segment \in DOMAIN handlers : handlers[segment].pc = "idle"
    /\ IF fail
       THEN scanner' = [scanner EXCEPT !.pc = "os.Exit(1)"] /\ UNCHANGED totals
       ELSE /\ scanner' = [scanner EXCEPT !.pc = "printed"]
            /\ totals' = accumulateSegments(newSummary.counts, handlers, 1)
    /\ UNCHANGED <<handlers, pageCounter, reindexed, scanned, outsideScan>>

InitScan ==
    /\ EmptyStore
    /\ NewUserStore(DefaultBucketStoreCfg, <<>>)
    /\ NoScan
    /\ NoFan
    /\ NoPeer

NextScan ==
    \/ \E n \in SegmentCounts, orgs \in DeleteSets, prefix \in ReindexPrefixes :
          main(n, orgs, prefix)
    \/ \E segment \in DOMAIN handlers : handlePage(segment)
    \/ \E segment \in DOMAIN handlers, row \in Rows : iteratorNext(segment, row)
    \/ \E segment \in DOMAIN handlers : handlePageReturn(segment)
    \/ \E fail \in BOOLEAN : ScanReturn(fail)

SpecScan == InitScan /\ [][NextScan]_vars

(***************************************************************************)
(* Properties.                                                             *)
(***************************************************************************)
\* The index entries a chunk is written with.
IndexEntriesOf(chunk) ==
    Range(GetWriteEntries(chunk.From, chunk.Through, chunk.UserID,
                          LabelGet(chunk.Metric, MetricName), chunk.Metric,
                          ExternalKey(chunk)))

\* The rows of the index that point to a chunk key.
RowsOf(chunkID) ==
    {e \in index : parseChunkTimeRangeValue(e.RangeValue, e.Value).chunkKey = chunkID}

\* The call op has returned and the caller has not yet taken the result.
Returned(op) == call.op = op /\ call.pc = "done"

\* C1: within a PutOne the index write comes after the successful payload
\* write: whenever the current PutOne has written its index entries it has
\* stored the payload before and the payload is in the object store, and
\* while it is still at the payload write or the cache write-back it has not
\* written the index.
C1_PayloadBeforeIndex ==
    /\ call.wrote => call.stored /\ call.putq[call.i] \in chunks
    /\ call.pc \in {"PutChunks", "writeBackCache"} => ~call.wrote

C1_Witness ==
    /\ Returned("Put") /\ call.err = Nil
    /\ call.wrote /\ call.stored
    /\ IndexEntriesOf(call.putq[call.i]) \subseteq index

C4_NoDuplicateTriple ==
    call.pc = "done" =>
        /\ \A i, j \in 1..Len(call.batch) :
              Triple(call.batch[i].entry) = Triple(call.batch[j].entry) => i = j
        /\ \A i \in 1..Len(call.batch) :
              call.batch[i].op = "Add" /\ call.batch[i].entry \in Range(call.entries)

\* The schema returned the same triple twice, with different values, and the
\* batch has been built.
C4_Witness ==
    /\ call.pc = "done"
    /\ \E i, j \in 1..Len(call.entries) :
          /\ i # j
          /\ Triple(call.entries[i]) = Triple(call.entries[j])
          /\ call.entries[i].Value # call.entries[j].Value
    /\ Len(call.batch) = 2

\* A DeleteChunk with a partial interval strictly inside the interval of the
\* chunk it names has returned nil.
InteriorDeleteDone ==
    /\ Returned("DeleteChunk") /\ call.err = Nil
    /\ call.del.partial.set
    /\ call.del.chunkID[3] < call.del.partial.Start
    /\ call.del.partial.End < call.del.chunkID[4]

\* The replacement of the fetched chunk f on one side [from, through] of the
\* deleted interval: the chunk of f's samples there, when there are any.
Replacement(f, from, through) ==
    LET data == {t \in f.Data : from <= t /\ t <= through}
    IN  IF data = {} THEN {}
        ELSE {NewChunk(f.UserID, f.Metric, data, from, through)}

\* C10: after a successful partial DeleteChunk of [a, b] strictly inside
\* [c.From, c.Through], called with the from, through and metric c was
\* written with, the store holds the 0 to 2 replacement chunks over
\* [c.From, a-1] and [b+1, c.Through] that have samples (payload and index
\* entries), and neither a payload nor an index row of the original chunkID.
C10_PartialDeleteLaw ==
    InteriorDeleteDone =>
        LET d  == call.del
            id == d.chunkID
            expected == IF call.chunk = <<>> THEN {}
                        ELSE Replacement(call.chunk[1], id[3], d.partial.Start - 1)
                             \cup Replacement(call.chunk[1], d.partial.End + 1, id[4])
        IN  /\ Lookup(chunks, id) = {}
            /\ RowsOf(id) = {}
            /\ Cardinality(expected) <= 2
            /\ \A n \in expected :
                  /\ n \in chunks
                  /\ IndexEntriesOf(n) \subseteq index
                  /\ <<n.From, n.Through>> \in {<<id[3], d.partial.Start - 1>>,
                                                <<d.partial.End + 1, id[4]>>}

\* A stored chunk with samples on both sides of the deleted interval has
\* been partially deleted: two replacements were put.
C10_Witness ==
    /\ InteriorDeleteDone
    /\ call.chunk # <<>>
    /\ Len(call.putq) = 2
    /\ \A i \in 1..2 : call.putq[i] \in chunks

(***************************************************************************)
(* Properties of the read calls.                                           *)
(***************************************************************************)
ReadOps == {"Get", "LabelValuesForMetricName", "LabelNamesForMetricName"}

\* A read call has returned.
ReadReturned == call.op \in ReadOps /\ call.pc = "done"

\* The HTTP-400 errors of the store.
BadRequest ==
    {"400 through < from", "400 query too long", "400 query must contain metric name",
     "400 fetched too many chunks"}

\* The errors of the index and of the chunk storage.
StorageErrors ==
    {"index read failed", "ErrStorage", "ErrStorageObjectNotFound"}
    \cup {taskError(i) : i \in 1..3}

\* The interval of a chunk, or of a chunk key, meets the range <<from, through>>.
Overlaps(c, range) == ~(c.Through < range[1] \/ range[2] < c.From)
KeyOverlaps(k, range) == ~(k[4] < range[1] \/ range[2] < k[3])

\* The query for a chunk by its labels: the metric name and an equality
\* matcher for each other label.
MatchersOf(c) ==
    <<Matcher("=", MetricName, LabelGet(c.Metric, MetricName))>>
    \o SetToSeq({Matcher("=", n, c.Metric[n]) : n \in DOMAIN c.Metric \ {MetricName}})

\* The written chunks the returned Get asked for by user, interval and labels.
AskedFor ==
    {c \in written : /\ call.res.userID = c.UserID
                     /\ call.res.from = c.From /\ call.res.through = c.Through
                     /\ call.res.matchers = MatchersOf(c)}

\* C2 as stated: after PutOne(c) returned nil and without a delete of c,
\* Get(c.UserID, c.From, c.Through, labels of c) returns c (storage faults
\* during the Get aside).
C2_ReadYourWrite ==
    Returned("Get") =>
        \A c \in AskedFor :
            call.err \notin StorageErrors
                => call.err = Nil /\ c \in Range(call.res.chunks)

\* C2, amended: the Get returns c when it returns without error, is not cut
\* short because c.From is after now, and the range it ends up reading (from
\* moved up by the look-back limit, through clamped to now) still meets c.
C2_ReadYourWriteInRange ==
    Returned("Get") =>
        \A c \in AskedFor :
            (call.err = Nil /\ ~call.res.shortcut /\ Overlaps(c, call.res.filterRange))
                => c \in Range(call.res.chunks)

C2_Witness ==
    /\ Returned("Get") /\ call.err = Nil /\ ~call.res.shortcut
    /\ \E c \in AskedFor : c \in Range(call.res.chunks)

\* The matchers hold an equality matcher on the metric name.
HasNameEquality(ms) ==
    \E i \in 1..Len(ms) : ms[i].Name = MetricName /\ ms[i].Type = "="

\* The range passes the checks before the clock is read: through >= from and
\* the length is within MaxQueryLength.
RangeAccepted(r) ==
    /\ r.through >= r.from
    /\ cfg.MaxQueryLength = 0 \/ r.through - r.from <= cfg.MaxQueryLength

\* C5 as stated: a Get without an equality matcher on the metric name fails
\* with a 400, whatever the range.
C5_MetricNameRequired ==
    (Returned("Get") /\ ~HasNameEquality(call.res.matchers)) => call.err \in BadRequest

\* C5, amended: a Get without an equality matcher on the metric name fails
\* with a 400, except when the range is accepted and from is after now: then
\* it returns no chunk and no error.
C5_MetricNameRequiredUnlessFuture ==
    (Returned("Get") /\ ~HasNameEquality(call.res.matchers)) =>
        IF RangeAccepted(call.res) /\ call.res.from > call.res.now
        THEN call.err = Nil /\ call.res.chunks = <<>>
        ELSE call.err \in BadRequest

\* A Get over an accepted range that is not in the future was refused for
\* the missing metric name, on a store that holds chunks.
C5_Witness ==
    /\ Returned("Get") /\ ~HasNameEquality(call.res.matchers)
    /\ call.err = "400 query must contain metric name"
    /\ call.res.matchers # <<>>
    /\ written # {}

\* C6: a read call whose from is after now (through >= from, length within
\* MaxQueryLength) returns nothing and no error, and issues no schema query,
\* no index read and no chunk fetch.
C6_FutureShortcut ==
    (ReadReturned /\ RangeAccepted(call.res) /\ call.res.from > call.res.now) =>
        /\ call.err = Nil
        /\ call.res.chunks = <<>> /\ call.res.strings = {}
        /\ call.res.schema = {}
        /\ ~call.res.indexRead
        /\ ~call.res.fetchCalled

\* A Get for a written chunk that starts after now has returned.
C6_Witness ==
    /\ Returned("Get") /\ call.res.from > call.res.now
    /\ AskedFor # {}
    /\ call.err = Nil /\ call.res.chunks = <<>>

\* C7: when validation passes without shortcut, the through of the schema
\* queries and of the interval filter is now if the requested through is
\* later than now + 5 minutes, and the requested through otherwise.
C7_ThroughClamp ==
    (ReadReturned /\ call.res.indexRead) =>
        LET want == IF call.res.through > call.res.now + FiveMinutes
                    THEN call.res.now ELSE call.res.through
        IN  /\ call.res.schema # {}
            /\ \A q \in call.res.schema : q[2] = want
            /\ call.res.filterRange # <<>> => call.res.filterRange[2] = want

\* A Get with a through later than now + 5 minutes has returned chunks.
C7_Witness ==
    /\ Returned("Get") /\ call.err = Nil
    /\ call.res.through > call.res.now + FiveMinutes
    /\ call.res.filterRange # <<>>
    /\ call.res.chunks # <<>>

\* The chunk keys every matcher task of the returned Get found.
Candidates ==
    {k \in Range(call.res.cands[1]) :
        \A i \in 1..Len(call.res.cands) : k \in Range(call.res.cands[i])}

\* C8: Get returns no chunk whose interval lies outside the effective range,
\* and such chunks are dropped before the limit check and before the fetch:
\* the limit counts and the fetch names exactly the candidates that meet the
\* range.
C8_IntervalFilter ==
    (Returned("Get") /\ call.res.filterRange # <<>>) =>
        LET range == call.res.filterRange
            inRange == {k \in Candidates : KeyOverlaps(k, range)}
        IN  /\ \A c \in Range(call.res.chunks) : Overlaps(c, range)
            /\ call.res.limitCount = Cardinality(inRange)
            /\ call.res.fetchCalled => Range(call.res.fetched) = inRange

\* The index gave a chunk outside the range of a Get that returned.
C8_Witness ==
    /\ Returned("Get") /\ call.err = Nil /\ call.res.filterRange # <<>>
    /\ \E k \in Candidates : ~KeyOverlaps(k, call.res.filterRange)
    /\ call.res.fetchCalled

\* C9: the chunks Get returns are the chunks found by every matcher task,
\* restricted to the effective range and to the chunks the filters accept;
\* every returned chunk satisfies every matcher beyond the metric name.
C9_Intersection ==
    (Returned("Get") /\ call.err = Nil /\ ~call.res.shortcut) =>
        LET M == MetricNameMatcherFromMatchers(call.res.matchers).matchers
            filters == SplitFiltersAndMatchers(M).filters
            accepted(k) == \E c \in cache \cup chunks :
                              /\ ExternalKey(c) = k
                              /\ \A f \in Range(filters) : Matches(f, LabelGet(c.Metric, f.Name))
        IN  /\ {ExternalKey(c) : c \in Range(call.res.chunks)}
                 = {k \in Candidates : KeyOverlaps(k, call.res.filterRange) /\ accepted(k)}
            /\ \A c \in Range(call.res.chunks) :
                  \A m \in Range(M) : Matches(m, LabelGet(c.Metric, m.Name))

\* A Get with two indexed matchers returned some chunk and left out a chunk
\* that one of its matcher tasks did not find.
C9_Witness ==
    /\ Returned("Get") /\ call.err = Nil
    /\ Len(call.res.cands) = 2
    /\ call.res.chunks # <<>>
    /\ \E c \in chunks : /\ c \notin Range(call.res.chunks)
                         /\ LabelGet(c.Metric, MetricName) = call.res.metricName
                         /\ Overlaps(c, call.res.filterRange)

\* The errors the storage faults of a delete surface as.
DeleteFaults ==
    {"ErrStorage", "when deleting index entries: BatchWrite failed",
     "when deleting chunk from storage: DeleteChunk failed"}

\* C11: a step that removes a payload is taken by a DeleteChunk that has
\* applied its index delete batch, so that no entry of the batch is left; a
\* payload delete that reported the not-found sentinel makes DeleteChunk
\* return nil; and a DeleteChunk repeated with the same arguments after it
\* succeeded leaves the index and the object store as the first call left
\* them and returns nil unless a storage call of it fails.
C11_DeleteTwice ==
    [][/\ (chunks' # chunks /\ chunks' \subseteq chunks) =>
              /\ call.op = "DeleteChunk"
              /\ "index.BatchWrite" \in call.calls
              /\ call.indexErr = Nil
              /\ \A e \in Range(GetWriteEntries(call.del.from, call.del.through,
                                                call.del.userID,
                                                LabelGet(call.del.metric, MetricName),
                                                call.del.metric, call.del.chunkID)) :
                     \A x \in index : Triple(x) # Triple(e)
       /\ (call'.pc = "done" /\ call'.clientErr = "ErrStorageObjectNotFound") =>
              call'.err = Nil
       /\ call'.round = 2 =>
              /\ index' = call'.snap[1]
              /\ chunks' = call'.snap[2]
              /\ call'.pc = "done" => call'.err \in {Nil} \cup DeleteFaults]_vars

\* The repeated DeleteChunk of a chunk that was stored returned nil on the
\* not-found sentinel of the payload delete.
C11_Witness ==
    /\ Returned("DeleteChunk") /\ call.round = 2 /\ call.err = Nil
    /\ call.clientErr = "ErrStorageObjectNotFound"
    /\ call.snap[1] = index /\ call.snap[2] = chunks
    /\ \E c \in BaseChunks : ExternalKey(c) = call.del.chunkID /\ c \in cache

\* C12: a DeleteChunk whose index BatchWrite of the delete batch failed
\* returned an error without calling ChunkClient.DeleteChunk, and a
\* DeleteChunk whose payload delete failed with an error other than
\* not-found returned an error.
C12_DeleteErrors ==
    Returned("DeleteChunk") =>
        /\ call.indexErr # Nil =>
              (call.err # Nil /\ "chunks.DeleteChunk" \notin call.calls)
        /\ call.clientErr \notin {Nil, "ErrStorageObjectNotFound"} => call.err # Nil

\* A DeleteChunk of a stored chunk returned the failure of its index
\* write, and the payload is still in the object store.
C12_Witness ==
    /\ Returned("DeleteChunk")
    /\ call.indexErr # Nil
    /\ Lookup(chunks, call.del.chunkID) # {}

\* C13: a DeleteChunk with a partially deleted interval that does not
\* overlap the chunk's [From, Through] returns the no-overlap error from
\* reboundChunk without a storage call, and the index, the object store and
\* the cache are what they were when it was called.
C13_NoOverlapFrame ==
    [][(/\ call'.op = "DeleteChunk"
        /\ call'.del.partial.set
        /\ LabelGet(call'.del.metric, MetricName) # ""
        /\ call'.del.chunkID[1] = call'.del.userID
        /\ ~intervalsOverlap(call'.del.chunkID[3], call'.del.chunkID[4],
                             call'.del.partial.Start, call'.del.partial.End)) =>
           /\ UNCHANGED <<index, chunks, cache>>
           /\ call'.calls = {}
           /\ call'.pc \in {"reboundChunk", "done"}
           /\ call'.pc = "done" => call'.err = "ErrParialDeleteChunkNoOverlap"]_vars

\* A DeleteChunk of a stored chunk with an interval that misses it has
\* returned the no-overlap error.
C13_Witness ==
    /\ Returned("DeleteChunk")
    /\ call.del.partial.set
    /\ call.err = "ErrParialDeleteChunkNoOverlap"
    /\ Lookup(chunks, call.del.chunkID) # {}
    /\ RowsOf(call.del.chunkID) # {}

\* The sync function has run in call n of syncUserStores for every tenant
\* prefix the bucket lists.
AllRan(n) ==
    \A i \in 1..Len(svc.bucket) :
        \E r \in ran : r.n = n /\ r.userID = TrimSuffix(svc.bucket[i], "/")

\* C14: with TenantSyncConcurrency >= 1, every call of syncUserStores
\* eventually has run the per-tenant sync function for every tenant prefix
\* the bucket lists, whatever fails for single tenants; only a failure of
\* the listing itself excuses it.
C14_SyncLiveness ==
    \A n \in 1..MaxSyncs :
        []((sync.n = n /\ svc.cfg.TenantSyncConcurrency >= 1) =>
               <>(AllRan(n) \/ (sync.n = n /\ sync.err = "Iter failed")))

\* A syncUserStores has returned the error of a getOrCreateStore, the
\* listing did not fail, and a listed tenant was not synced.
C14_Witness ==
    /\ sync.pc = "idle" /\ sync.n > 0
    /\ sync.err \in BuildFaults \ {Nil}
    /\ ~AllRan(sync.n)
    /\ \E r \in ran : r.n = sync.n

\* C15: an RPC whose metadata carries user X calls only the BucketStore
\* that was built for X and is kept under X, whatever getOrCreateStore
\* calls run beside it.
C15_TenantRouting ==
    /\ \A t \in touched : /\ t[2] # NoStore
                          /\ built[t[2]] = t[1]
                          /\ stores[t[1]] = t[2]
    /\ \A p \in Procs :
          (procs[p].op \in RPCs /\ (procs[p].pc = "call" \/ procs[p].invoked)) =>
              /\ procs[p].bs # NoStore
              /\ built[procs[p].bs] = procs[p].md.user[1]

\* An RPC for one user has called its BucketStore while a getOrCreateStore
\* for the other user holds the write lock, and both users have a store
\* that an RPC has called.
C15_Witness ==
    /\ \A u \in Users : \E t \in touched : t[1] = u
    /\ \E p \in Procs, q \in Procs :
          /\ procs[p].op \in RPCs /\ procs[p].invoked
          /\ procs[q].op = "getOrCreateStore" /\ procs[q].pc = "locked"
          /\ procs[q].user # procs[p].user

\* The BucketStores built for user u.
BuiltFor(b, u) == {s \in 1..Len(b) : b[s] = u}

\* C16: under every interleaving of getOrCreateStore and getStore calls at
\* most one BucketStore is built per user id, an entry of the map that is
\* set is never replaced or removed, and a call that began after the entry
\* was set returns that store; getOrCreateStore returns the kept store or
\* an error.
C16_SingleStore ==
    [][/\ \A u \in Users : stores[u] # NoStore => stores'[u] = stores[u]
       /\ \A u \in Users : /\ Cardinality(BuiltFor(built', u)) <= 1
                           /\ stores'[u] # NoStore => built'[stores'[u]] = u
       /\ \A p \in Procs :
             (/\ procs'[p].pc = "done"
              /\ procs'[p].op \in {"getStore", "getOrCreateStore"}
              /\ procs'[p].err = Nil) =>
                 /\ procs'[p].bs \in {NoStore, stores'[procs'[p].user]}
                 /\ procs'[p].seen # NoStore => procs'[p].bs = procs'[p].seen
                 /\ procs'[p].op = "getOrCreateStore" => procs'[p].bs # NoStore]_vars

\* Two getOrCreateStore calls for the same user that both began before the
\* store existed have returned the same store.
C16_Witness ==
    \E p \in Procs, q \in Procs :
        /\ p # q
        /\ procs[p].op = "getOrCreateStore" /\ procs[q].op = "getOrCreateStore"
        /\ procs[p].pc = "done" /\ procs[q].pc = "done"
        /\ procs[p].user = procs[q].user
        /\ procs[p].seen = NoStore /\ procs[q].seen = NoStore
        /\ procs[p].bs # NoStore /\ procs[p].bs = procs[q].bs

\* C17: an RPC whose request has no metadata or no user field returns an
\* error without calling a BucketStore; an RPC whose user has no
\* BucketStore returns an empty response and no error without calling one;
\* and no step of an RPC builds or registers a BucketStore.
C17_RpcErrors ==
    [][/\ \A p \in Procs :
             (procs'[p].op \in RPCs /\ procs'[p].pc = "done") =>
                 /\ (~procs'[p].md.ok \/ procs'[p].md.user = <<>>) =>
                        (procs'[p].err # Nil /\ ~procs'[p].invoked)
                 /\ (procs'[p].md.user # <<>> /\ procs'[p].bs = NoStore) =>
                        /\ procs'[p].resp = Nil
                        /\ procs'[p].err = Nil
                        /\ ~procs'[p].invoked
       /\ (built' # built \/ stores' # stores) =>
              \E p \in Procs : /\ procs[p].op = "getOrCreateStore"
                               /\ procs[p].pc = "locked"
                               /\ procs'[p].pc = "done"]_vars

\* One RPC has returned the error of a request without user field and
\* another the empty response for a user that has no BucketStore.
C17_Witness ==
    \E p \in Procs, q \in Procs :
        /\ procs[p].op \in RPCs /\ procs[p].pc = "done"
        /\ procs[p].md.ok /\ procs[p].md.user = <<>> /\ procs[p].err = "no userID"
        /\ procs[q].op \in RPCs /\ procs[q].pc = "done"
        /\ procs[q].md.user # <<>> /\ procs[q].bs = NoStore
        /\ stores[procs[q].md.user[1]] = NoStore
        /\ procs[q].resp = Nil /\ procs[q].err = Nil

\* C18: an error that comes up in starting (listen, dial, or the error the
\* initial sync returns) fails the service, which then never runs; a
\* service that runs with SyncInterval > 0 has run InitialSync for every
\* tenant the bucket lists before; and with SyncInterval <= 0 no sync runs
\* at all.
C18_Starting ==
    [][/\ svc'.fault # Nil => svc'.state = "Failed"
       /\ svc.state = "Failed" => (svc'.state = "Failed" /\ sync' = sync /\ ran' = ran)
       /\ (svc'.state \in {"Running", "Terminated"} /\ svc'.cfg.SyncInterval > 0) =>
              \A i \in 1..Len(svc'.bucket) :
                  \E r \in ran' : /\ r.n = 1
                                  /\ r.f = "InitialSync"
                                  /\ r.userID = TrimSuffix(svc'.bucket[i], "/")
       /\ svc'.cfg.SyncInterval <= 0 => (sync'.n = 0 /\ ran' = {})
       /\ svc.state \in {"New", "Starting"} => ~(\E r \in ran' : r.f = "SyncBlocks")]_vars

\* The service runs after an initial sync over two tenants in which the
\* InitialSync of one tenant failed.
C18_Witness ==
    /\ svc.state = "Running"
    /\ svc.cfg.SyncInterval > 0
    /\ Len(svc.bucket) = 2
    /\ \E r \in ran : r.n = 1 /\ r.err # Nil
    /\ sync.n = 1

\* C19: when the scan is over and the totals are printed, the total of
\* every tenant id t > 0 is the number of scanned rows whose OrgFromHash is
\* t, over all segments, whatever decoding and indexing came to and
\* whether or not t is in the delete set, and no tenant id <= 0 has a
\* total.
C19_ScanTotals ==
    scanner.pc = "printed" =>
        /\ \A t \in OrgIDs : t > 0 => Count(totals, t) = scanned[t]
        /\ \A t \in DOMAIN totals : t > 0 /\ totals[t] > 0

\* A scan over two segments is printed: both handlers counted rows of
\* tenant 3, rows of tenant ids <= 0 were scanned, and with reindexing on
\* fewer chunks were indexed than rows were counted.
C19_Witness ==
    /\ scanner.pc = "printed"
    /\ scanner.segments = 2
    /\ \A segment \in 1..2 : Count(handlers[segment].summary.counts, 3) > 0
    /\ scanned[0] + scanned[-1] > 0
    /\ scanner.reindexTablePrefix # ""
    /\ reindexed < Count(totals, 3)

\* C20: once the context of a query is cancelled the coordinator of the
\* fan-out takes no further matcher result into its chunk ids, and every
\* matcher task that is at its send completes it.
C20_CancelStopsCollecting ==
    /\ [][(fan.pc = "select" /\ ctxDone) =>
              (fan'.chunkIDs = fan.chunkIDs /\ fan'.isNil = fan.isNil)]_vars
    /\ \A k \in 1..MaxMatchers :
          []((k \in DOMAIN matcherTasks /\ matcherTasks[k].pc = "send") =>
                 <>(k \in DOMAIN matcherTasks /\ matcherTasks[k].pc = "exit"))

\* A query whose context was cancelled has returned without error the
\* chunk ids of results that its coordinator received after the
\* cancellation.
C20_Witness ==
    /\ fan.pc = "return"
    /\ ctxDone
    /\ fan.late > 0
    /\ fan.lastErr = Nil
    /\ fan.chunkIDs # <<>>

\* C21: in the fan-out of a query with N >= 1 matchers every goroutine
\* sends one message and no more, the coordinator has received as many
\* messages as were sent, a call that returns has received N messages and
\* leaves no goroutine before or at its send, and every call returns,
\* whichever goroutines fail.
C21_FanOutJoin ==
    /\ [](fan.pc # "idle" =>
            /\ DOMAIN matcherTasks = 1..Len(fan.matchers)
            /\ \A k \in DOMAIN matcherTasks :
                  /\ matcherTasks[k].sent \in {0, 1}
                  /\ matcherTasks[k].sent = 1 <=> matcherTasks[k].pc = "exit"
            /\ fan.i = Cardinality({k \in DOMAIN matcherTasks : matcherTasks[k].sent = 1})
            /\ fan.pc = "return" =>
                  /\ fan.i = Len(fan.matchers)
                  /\ \A k \in DOMAIN matcherTasks : matcherTasks[k].pc = "exit")
    /\ [](fan.pc = "select" => <>(fan.pc = "return"))

\* A query with two matchers has returned after one goroutine sent an error
\* and the other its chunk ids.
C21_Witness ==
    /\ fan.pc = "return"
    /\ Len(fan.matchers) = 2
    /\ fan.i = 2
    /\ \E k \in DOMAIN matcherTasks : matcherTasks[k].err # Nil /\ matcherTasks[k].sent = 1
    /\ \E k \in DOMAIN matcherTasks : matcherTasks[k].err = Nil /\ matcherTasks[k].sent = 1

\* C22: a Get in which a matcher task failed returns the error of the
\* failing task whose message the coordinator received last and has not
\* called FetchChunks, however many other tasks succeeded and in whatever
\* order the messages arrived.
C22_LastErrorNoFetch ==
    (Returned("Get") /\ call.res.lastFailed # 0) =>
        /\ call.err = taskError(call.res.lastFailed)
        /\ ~call.res.fetchCalled
        /\ call.res.chunks = <<>>

\* A Get with two indexable matchers has returned the error of the first:
\* either both failed and the second was received first, or the second
\* succeeded with chunk ids.
C22_Witness ==
    /\ Returned("Get")
    /\ Len(Indexable(call.res.matchers)) = 2
    /\ call.res.lastFailed = 1
    /\ call.err = taskError(1)
    /\ \E i \in 1..Len(call.res.cands) : call.res.cands[i] # <<>>

\* The chunk ids every matcher goroutine of the query has sent, in the
\* order of the keys.
CommonChunkIDs ==
    SortedKeys({id \in Range(matcherTasks[1].chunkIDs) :
                  \A k \in DOMAIN matcherTasks : id \in Range(matcherTasks[k].chunkIDs)})

\* C23: the chunk-id list the coordinator holds when all matcher results
\* have arrived without error is the sorted list of the ids common to all
\* matchers, so it is the same for every order of arrival, also when an
\* empty list arrives first or the running intersection is empty before the
\* last list arrives.
C23_ArrivalOrder ==
    (fan.pc = "return" /\ fan.lastErr = Nil) => fan.chunkIDs = CommonChunkIDs

\* A query has returned without error in which the list that arrived first
\* was empty and the list that arrived last was not.
C23_Witness ==
    /\ fan.pc = "return"
    /\ fan.lastErr = Nil
    /\ Len(fan.arrived) >= 2
    /\ matcherTasks[fan.arrived[1]].chunkIDs = <<>>
    /\ matcherTasks[fan.arrived[Len(fan.arrived)]].chunkIDs # <<>>

\* The workers that are running the per-tenant sync function.
InFlight == {w \in DOMAIN workers : workers[w].pc = "f"}

\* C24: at every moment the number of per-tenant sync calls in flight is at
\* most TenantSyncConcurrency, however many tenants the bucket lists.
C24_BoundedConcurrency ==
    Cardinality(InFlight) <= svc.cfg.TenantSyncConcurrency

\* With more tenants than workers, every worker is running the sync
\* function while the callback of the listing waits to hand over the job of
\* the next tenant.
C24_Witness ==
    /\ svc.cfg.TenantSyncConcurrency >= 1
    /\ Len(svc.bucket) > svc.cfg.TenantSyncConcurrency
    /\ sync.pc = "send"
    /\ Cardinality(InFlight) = svc.cfg.TenantSyncConcurrency

\* C25: when a syncUserStores has returned, no worker is running the sync
\* function or waiting for a job, and every job that was sent on the
\* channel has been processed in one call of the sync function, no more
\* and no less; so also when the listing or the callback ended with an
\* error.
C25_JoinOnReturn ==
    (sync.pc = "idle" /\ sync.n > 0) =>
        /\ \A w \in DOMAIN workers : workers[w].pc = "Done"
        /\ Len(sync.processed) = Len(sync.sent)
        /\ \A i \in 1..Len(sync.sent) :
              Cardinality({j \in 1..Len(sync.processed) :
                             sync.processed[j][2] = sync.sent[i]}) = 1

\* A syncUserStores has returned an error after a job had been sent, and
\* the job has been processed.
C25_Witness ==
    /\ sync.pc = "idle" /\ sync.n > 0
    /\ sync.err # Nil
    /\ Len(sync.sent) >= 1
    /\ Len(sync.processed) = Len(sync.sent)

\* C26: with SyncInterval > 0 the first periodic sync of the running
\* service starts when a full interval has passed; a round that fails
\* leaves the service running without error, and another round starts
\* unless the context is done first; the loop that ends when the context is
\* done ends without error; with SyncInterval <= 0 no sync ever runs.
C26_SyncLoop ==
    /\ [][(svc.pc = "loop" /\ svc'.pc = "syncStores" /\ svc.rounds = 0) =>
              svc.elapsed >= svc.cfg.SyncInterval]_vars
    /\ [](svc.cfg.SyncInterval <= 0 => (sync.n = 0 /\ ran = {}))
    /\ [](svc.state = "Terminated" => svc.err = Nil)
    /\ []((svc.pc = "loop" /\ svc.warned > 0) => (svc.state = "Running" /\ svc.err = Nil))
    /\ \A r \in 1..(MaxSyncs - 2) :
          []((svc.pc = "loop" /\ svc.rounds = r /\ sync.err # Nil) =>
                 <>(svc.rounds > r \/ svc.state = "Terminated"))

\* A periodic sync is running after an earlier periodic sync failed.
C26_Witness ==
    /\ svc.state = "Running"
    /\ svc.pc = "syncStores"
    /\ svc.rounds >= 2
    /\ svc.warned >= 1

\* C27: in a Put, a PutChunks either stores the chunk and goes on to the
\* cache write-back, or fails, and then Put returns that error at this
\* chunk with index, cache and payloads as they were; a Put that has
\* returned writes nothing more; every step of a Put writes only for the
\* chunk PutOne is at, so the chunks after a failed one stay unwritten; and
\* the chunks before the one PutOne is at have their payload and their
\* index entries written.
C27_PutStopsAtFailure ==
    [][(call.op = "Put" /\ call.pc # "idle") =>
          LET chunk == call.putq[call.i]
          IN  /\ call.pc = "PutChunks" =>
                    \/ /\ call'.pc = "writeBackCache"
                       /\ call'.i = call.i
                       /\ chunk \in chunks'
                    \/ /\ call'.pc = "done"
                       /\ call'.err = "PutChunks failed"
                       /\ call'.i = call.i
                       /\ index' = index /\ cache' = cache /\ chunks' = chunks
              /\ call.pc = "done" => (index' = index /\ cache' = cache /\ chunks' = chunks)
              /\ chunks' \subseteq chunks \cup {chunk}
              /\ cache' \subseteq cache \cup {chunk}
              /\ index' \subseteq index \cup IndexEntriesOf(chunk)
              /\ \A j \in 1..(call.i - 1) :
                    call.putq[j] \in chunks /\ IndexEntriesOf(call.putq[j]) \subseteq index]_vars

\* A Put of two chunks has returned the error of the PutChunks of the first
\* and the second is in neither the object store nor the index.
C27_Witness ==
    /\ Returned("Put")
    /\ Len(call.putq) = 2
    /\ call.i = 1
    /\ call.err = "PutChunks failed"
    /\ call.putq[2] \notin chunks
    /\ IndexEntriesOf(call.putq[2]) \cap index = {}

\* C28: whatever the cache write-back of a PutOne comes to, PutOne goes on
\* to the index write of the same chunk and changes nothing but the cache;
\* and PutOne returns what the index write returns: the error of
\* calculateIndexEntries or of BatchWrite, or nil with the entries written.
C28_CacheBestEffort ==
    [][(call.op = "Put" /\ call.pc \in {"writeBackCache", "BatchWrite"}) =>
          LET chunk == call.putq[call.i]
          IN  /\ call.pc = "writeBackCache" =>
                    /\ call'.pc = "BatchWrite"
                    /\ call'.i = call.i
                    /\ call'.err = call.err
                    /\ index' = index /\ chunks' = chunks
              /\ call.pc = "BatchWrite" =>
                    \/ /\ call'.pc = "done"
                       /\ call'.err \in {"BatchWrite failed", "ErrMetricNameLabelMissing"}
                       /\ index' = index
                    \/ /\ call'.pc = "done" => call'.err = Nil
                       /\ call'.pc # "done" => call'.i = call.i + 1
                       /\ IndexEntriesOf(chunk) \subseteq index'
                       /\ chunk \in written']_vars

\* A Put has returned nil with the index entries of its chunk written while
\* the write-back failed: the chunk is not in the cache.
C28_Witness ==
    /\ Returned("Put") /\ call.err = Nil
    /\ call.wrote
    /\ call.putq[call.i] \notin cache
    /\ IndexEntriesOf(call.putq[call.i]) \subseteq index
    /\ IndexEntriesOf(call.putq[call.i]) # {}

\* C29: a Get that has come to the check of the number of chunks left by
\* the interval filter fails with the HTTP-400 of too many chunks and
\* without a FetchChunks when MaxChunksPerQuery > 0 and the number is
\* greater; with a limit of 0 or a number within the limit it goes on to
\* FetchChunks and does not fail with that error.
C29_ChunkLimit ==
    /\ (Returned("Get") /\ call.res.limitCount >= 0) =>
          IF cfg.MaxChunksPerQuery > 0 /\ call.res.limitCount > cfg.MaxChunksPerQuery
          THEN /\ call.err = "400 fetched too many chunks"
               /\ ~call.res.fetchCalled
               /\ call.res.chunks = <<>>
          ELSE /\ call.err # "400 fetched too many chunks"
               /\ call.res.fetchCalled
    /\ (Returned("Get") /\ call.err = Nil /\ ~call.res.shortcut) =>
          call.res.limitCount >= 0

\* A Get under a limit of one chunk has found two chunks in its range and
\* has failed without fetching.
C29_Witness ==
    /\ Returned("Get")
    /\ cfg.MaxChunksPerQuery = 1
    /\ call.res.limitCount = 2
    /\ call.err = "400 fetched too many chunks"
    /\ ~call.res.fetchCalled

\* C30: whenever validateQueryTimeRange returns without error and without
\* shortcut, the range it leaves in from and through has from <= through.
C30_RangeOrdered ==
    (Returned("validateQueryTimeRange") /\ call.err = Nil /\ ~call.res.shortcut) =>
        call.res.validated[1] <= call.res.validated[2]

\* The range [0, 0] has been validated at time 2 under a look-back period
\* of 1, both clock readings being 2: from has become 1 and through is 0.
C30_Witness ==
    /\ Returned("validateQueryTimeRange")
    /\ call.err = Nil /\ ~call.res.shortcut
    /\ cfg.MaxLookBackPeriod = 1
    /\ call.res.from = 0 /\ call.res.through = 0 /\ call.res.now = 2
    /\ call.res.validated = <<1, 0>>

\* C31: in every state of two goroutines that call Put and DeleteChunk at
\* the same time, with every fault, every chunk key an index row points to
\* has its payload in the object store.
C31_ReferentialIntegrity ==
    \A e \in index :
        Lookup(chunks, parseChunkTimeRangeValue(e.RangeValue, e.Value).chunkKey) # {}

\* A Put and a DeleteChunk of the same chunk have both returned nil, and the
\* index rows of the chunk are there while its payload is not.
C31_Witness ==
    /\ Returned("DeleteChunk") /\ call.err = Nil
    /\ peer.op = "Put" /\ peer.pc = "done" /\ peer.err = Nil
    /\ ExternalKey(peer.putq[1]) = call.del.chunkID
    /\ RowsOf(call.del.chunkID) # {}
    /\ Lookup(chunks, call.del.chunkID) = {}

\* A DeleteChunk with a partially deleted interval, and its steps before
\* the delete batch: reboundChunk and the PutOne of each replacement.
PartialDelete(c) == c.op = "DeleteChunk" /\ c.del.partial.set
Rebounding(c) ==
    PartialDelete(c) /\ c.pc \in {"reboundChunk", "PutChunks", "writeBackCache", "BatchWrite"}

\* The errors of slicing and of putting a replacement chunk.
ReplacementErrors ==
    {"ErrSliceOutOfRange", "ErrMetricNameLabelMissing", "PutChunks failed",
     "BatchWrite failed"}

\* The call has issued neither the delete batch nor the payload delete.
NothingDeleted(c) == c.calls \cap {"index.BatchWrite", "chunks.DeleteChunk"} = {}

\* The call returned an error and deleted nothing.
FailedIntact(c) == c.pc = "done" /\ c.err # Nil /\ NothingDeleted(c)

\* Every step of reboundChunk leaves the index rows and the payload of the
\* original chunk as they were, and when it ends the call it ends it with an
\* error.
ReboundKeepsOriginal ==
    [][(Rebounding(call) /\ PartialDelete(call')) =>
          /\ RowsOf(call.del.chunkID)' = RowsOf(call.del.chunkID)
          /\ Lookup(chunks', call.del.chunkID) = Lookup(chunks, call.del.chunkID)
          /\ call'.pc = "done" => FailedIntact(call')]_vars

C33_SyncTerminates ==
    \A n \in 1..MaxSyncs :
        []((sync.n = n /\ sync.pc # "idle") => <>(sync.n = n /\ sync.pc = "idle"))

\* The callback of Bucket.Iter is at its send on jobs and no worker was
\* started.
C33_Witness ==
    /\ sync.pc = "send"
    /\ svc.cfg.TenantSyncConcurrency = 0
    /\ workers = <<>>
    /\ Len(svc.bucket) >= 1

\* The same with at least one worker.
SyncTerminatesWithWorkers ==
    \A n \in 1..MaxSyncs :
        []((sync.n = n /\ sync.pc # "idle" /\ svc.cfg.TenantSyncConcurrency >= 1) =>
               <>(sync.n = n /\ sync.pc = "idle"))

====
